---- MODULE Spec2Model ----
(***************************************************************************)
(* A model of the JSON-LD processor of json-ld-nostd: the array and         *)
(* document steps of the expansion algorithm (crates/expansion), the        *)
(* processor facade (src/processor) and the warning handlers (crates/core). *)
(***************************************************************************)
EXTENDS Integers, Sequences, FiniteSets, TLC

VARIABLES
    \* ---- document expansion (crates/expansion) ----
    document,        \* the JSON value handed to document::expand
    active_context,  \* the initial active context handed to document::expand
    base_url,        \* the base URL handed to document::expand
    options,         \* the expansion options handed to document::expand
    pc,              \* position of document::expand
    stack,           \* the frames of the recursion, innermost last
    expanded,        \* what the recursion returned to document::expand
    result,          \* the ExpandedDocument (or the error) of document::expand
    log,             \* the calls and returns of the recursion, in order
    anomalies,       \* non-fatal anomalies met by the recursion
    handled,         \* warnings delivered to the caller's warning handler
    \* ---- the processor facade (src/processor) ----
    operation,       \* the method called: expand_full or to_rdf_full
    by_reference,    \* whether it is called on a RemoteDocumentReference::Iri
    remote,          \* the RemoteDocument: its url and its context_url
    proc_options,    \* the Options given by the caller
    call_options,    \* the Options as expand_full holds them
    ppc,             \* position of the method
    local_context,   \* the variable active_context of expand_full
    expand_args,     \* what expand_full hands to the expansion algorithm
    trace,           \* the steps taken, in order
    outcome,         \* what the method returned
    \* ---- warning handlers (crates/core/src/warning.rs) ----
    installed,       \* the handler in use: (), H, &mut H, Print or PrintWith
    vocabulary,      \* the vocabulary handed to the handler
    pending,         \* the warnings still to be emitted
    emitted,         \* the warnings emitted so far, in order
    received,        \* what the handler H has been given, in order
    wpc,             \* position of the code that emits the warnings
    processed,       \* what that code has done: the warnings it went through
    \* ---- conversion to RDF (src/processor: to_rdf_full, ToRdf) ----
    rdf_method,      \* the method called: expand_full or to_rdf_full
    rdf_input,       \* the node objects of the input document, in document order
    rdf_options,     \* the Options given by the caller
    rdf_seed,        \* the seed every generator of the caller is created with
    rdf_failure,     \* the error the expansion fails with, or None
    run,             \* the number of the run in progress
    rpc,             \* position of the method in the run in progress
    generator,       \* the generator lent to the call: the labels it has made
    doc,             \* the expanded document the method holds
    relabeled,       \* calls of relabel_and_canonicalize_with in this run
    quads,           \* the quads produced by quads() in this run
    finished,        \* what each completed run returned, in order
    \* ---- context processing (protected terms) ----
    ctx_active,      \* the term definitions of the active context
    ctx_locals,      \* the local contexts still to be processed, outermost first
    cpc,             \* position of the context processor
    ctx_result,      \* what the last call of the context processor returned
    ctx_history,     \* the calls of the context processor, in order
    \* ---- error codes (src/processor/mod.rs) ----
    err_chain,       \* an error: its cause first, then each wrapper around it
    codes,           \* codes[i]: what code() returned for the error at depth i
    \* ---- loaders (crates/core/src/loader) ----
    load_loader,     \* the loader `load` is called on
    load_url,        \* the url asked for
    lstack,          \* the calls of ChainLoader::load in progress, innermost last
    lcur,            \* the call about to be made, or the result being returned
    load_log,        \* the calls and returns of the loaders, in order
    load_result,     \* what the outermost `load` returned
    \* ---- the trait Expand (crates/expansion/src/lib.rs) ----
    receiver,        \* the value `expand` or `expand_with` is called on
    trait_method,    \* the method called by the caller
    caller_vocabulary, \* the vocabulary the caller gives to expand_with
    tcall,           \* the call in progress: the function and its arguments
    trait_log,       \* the calls made, in order
    \* ---- the options of the processor (src/processor/mod.rs 18-138) ----
    options_self,    \* the options a method of Options is called on
    options_call,    \* the method called last and its argument
    options_result,  \* the options it returned
    \* ---- strongly connected components (static-regular-grammar utils/scc.rs) ----
    scc_graph,       \* the graph: what vertices() yields and successors(v) for each v
    scc_todo,        \* the vertices of vertices() not yet iterated
    scc_map,         \* `map`: the Data of each vertex, once visited
    scc_stack,       \* `stack`
    scc_components,  \* `components`
    scc_calls,       \* the calls of strong_connect in progress, innermost last
    scc_pc,          \* "run", "done" or "panicked"
    scc_result,      \* the Components returned
    \* ---- xsd decimals (xsd-types/src/value/decimal/mod.rs) ----
    dec_r,           \* the rational given to is_decimal and the others
    dec_text,        \* the lexical form given to From<DecimalBuf> and FromStr
    dec_phase,       \* the function running
    dec_pc,          \* its position: "entry" or "loop"
    dec_rem,         \* `rem`
    dec_seen,        \* the remainders met: `self.set`, the keys of `map`
    dec_fraction,    \* `fraction`
    dec_is_decimal,  \* what is_decimal(r) returned
    dec_lexical,     \* what decimal_lexical_representation(r) returned
    dec_try_from,    \* what Decimal::try_from(r) returned
    dec_cached,      \* what lexical_representation() of that Decimal returned
    dec_from,        \* the Decimal made of the lexical form
    \* ---- the to_rdf methods of the facade (src/processor/mod.rs 573-886) ----
    to_rdf_method,   \* the method the caller calls
    to_rdf_given,    \* the options the caller has in hand
    to_rdf_call,     \* the call in progress: the method, its vocabulary, its options
    to_rdf_expansion, \* what the expansion was called with
    to_rdf_value,    \* the ToRdf returned: rdf_direction, produce_generalized_rdf
    to_rdf_quads     \* what quads() hands to rdf_quads_full

expansionVars == <<document, active_context, base_url, options, pc, stack,
                   expanded, result, log, anomalies, handled>>
procVars == <<operation, by_reference, remote, proc_options, call_options, ppc,
              local_context, expand_args, trace, outcome>>

warnVars == <<installed, vocabulary, pending, emitted, received, wpc, processed>>

rdfVars == <<rdf_method, rdf_input, rdf_options, rdf_seed, rdf_failure, run, rpc,
             generator, doc, relabeled, quads, finished>>

ctxVars == <<ctx_active, ctx_locals, cpc, ctx_result, ctx_history>>

codeVars == <<err_chain, codes>>

loaderVars == <<load_loader, load_url, lstack, lcur, load_log, load_result>>

traitVars == <<receiver, trait_method, caller_vocabulary, tcall, trait_log>>

optionsVars == <<options_self, options_call, options_result>>

sccVars == <<scc_graph, scc_todo, scc_map, scc_stack, scc_components, scc_calls,
             scc_pc, scc_result>>

decimalVars == <<dec_r, dec_text, dec_phase, dec_pc, dec_rem, dec_seen, dec_fraction,
                 dec_is_decimal, dec_lexical, dec_try_from, dec_cached, dec_from>>

toRdfVars == <<to_rdf_method, to_rdf_given, to_rdf_call, to_rdf_expansion, to_rdf_value,
               to_rdf_quads>>

vars == <<expansionVars, procVars, warnVars, rdfVars, ctxVars, codeVars, loaderVars,
          traitVars,
          optionsVars,
          sccVars,
          decimalVars,
          toRdfVars>>

\* What the actions of one part leave alone: the variables of the other parts.
otherThanExpansion == <<procVars, warnVars, rdfVars, ctxVars, codeVars, loaderVars,
      traitVars,
      optionsVars,
      sccVars,
      decimalVars,
      toRdfVars>>
otherThanProc == <<expansionVars, warnVars, rdfVars, ctxVars, codeVars, loaderVars,
      traitVars,
      optionsVars,
      sccVars,
      decimalVars,
      toRdfVars>>
otherThanWarn == <<expansionVars, procVars, rdfVars, ctxVars, codeVars, loaderVars,
      traitVars,
      optionsVars,
      sccVars,
      decimalVars,
      toRdfVars>>
otherThanRdf == <<expansionVars, procVars, warnVars, ctxVars, codeVars, loaderVars,
      traitVars,
      optionsVars,
      sccVars,
      decimalVars,
      toRdfVars>>
otherThanCtx == <<expansionVars, procVars, warnVars, rdfVars, codeVars, loaderVars,
      traitVars,
      optionsVars,
      sccVars,
      decimalVars,
      toRdfVars>>
otherThanCode == <<expansionVars, procVars, warnVars, rdfVars, ctxVars, loaderVars,
      traitVars,
      optionsVars,
      sccVars,
      decimalVars,
      toRdfVars>>
otherThanLoader == <<expansionVars, procVars, warnVars, rdfVars, ctxVars, codeVars,
                     traitVars,
      optionsVars,
      sccVars,
      decimalVars,
      toRdfVars>>
otherThanTrait == <<expansionVars, procVars, warnVars, rdfVars, ctxVars, codeVars,
                    loaderVars,
      optionsVars,
      sccVars,
      decimalVars,
      toRdfVars>>
otherThanOptions == <<expansionVars, procVars, warnVars, rdfVars,
      ctxVars, codeVars, loaderVars, traitVars,
      sccVars,
      decimalVars,
      toRdfVars>>
otherThanScc == <<expansionVars, procVars, warnVars, rdfVars,
      ctxVars, codeVars, loaderVars, traitVars, optionsVars,
      decimalVars,
      toRdfVars>>
otherThanDecimal == <<expansionVars, procVars, warnVars, rdfVars,
      ctxVars, codeVars, loaderVars, traitVars, optionsVars, sccVars,
      toRdfVars>>
otherThanToRdf == <<expansionVars, procVars, warnVars, rdfVars,
      ctxVars, codeVars, loaderVars, traitVars, optionsVars, sccVars, decimalVars>>

(***************************************************************************)
(* Bounds.                                                                 *)
(***************************************************************************)
\* Number of JSON values (scalars, arrays, objects) in an input document.
MaxNodes == 4

(***************************************************************************)
(* Values.                                                                 *)
(***************************************************************************)
\* Option::None.
None == "None"

\* JSON values.  A scalar, null, the empty object `{}`, a malformed object
\* (one the expansion rejects), an array, or an object with one entry.
Scalars == {"string", "number", "boolean"}
LeafKinds == Scalars \cup {"null", "empty", "bad"}
Keys == {"p", "l", "@graph"}

Leaf(k) == [kind |-> k, key |-> "", items |-> <<>>]
JArray(items) == [kind |-> "array", key |-> "", items |-> items]
JMap(k, child) == [kind |-> "map", key |-> k, items |-> <<child>>]

RECURSIVE JsonOfSize(_), JsonSeqs(_)
\* The sequences of JSON values holding m values in all.
JsonSeqs(m) ==
    IF m = 0 THEN {<<>>}
    ELSE UNION {{<<h>> \o t : h \in JsonOfSize(k), t \in JsonSeqs(m - k)} : k \in 1..m}

\* The JSON values made of exactly n values.
JsonOfSize(n) ==
    {JArray(s) : s \in JsonSeqs(n - 1)}
    \cup (IF n = 1 THEN {Leaf(k) : k \in LeafKinds}
          ELSE {JMap(k, c) : k \in Keys, c \in JsonOfSize(n - 1)})

Documents == UNION {JsonOfSize(n) : n \in 1..MaxNodes}

\* Term definitions and contexts.
NoDefinition == [term |-> None, container |-> {}]
TermDefinition(t, c) == [term |-> t, container |-> c]
Context_new(base) == [original_base_url |-> base, definitions |-> {}]
WithDefinitions(ctx, defs) == [ctx EXCEPT !.definitions = defs]
SampleDefinitions ==
    {TermDefinition("p", {"Set"}), TermDefinition("l", {"List"})}

\* Context::get: the definition of a term, if any.
Context_get(ctx, term) ==
    IF \E d \in ctx.definitions : d.term = term
    THEN CHOOSE d \in ctx.definitions : d.term = term
    ELSE NoDefinition

BaseUrls == {None, "http://ex/doc"}
EmptyContext == Context_new(None)
Contexts ==
    {EmptyContext, WithDefinitions(Context_new("http://ex/doc"), SampleDefinitions)}
ExpansionOptions == {[ordered |-> FALSE], [ordered |-> TRUE]}

\* Objects of the expanded form.
ValueObject(lit) == [t |-> "value", lit |-> lit, key |-> "", items |-> <<>>]
ListObject(items) == [t |-> "list", lit |-> "", key |-> "", items |-> items]
NodeObject(key, items) == [t |-> "node", lit |-> "", key |-> key, items |-> items]
EmptyNode == NodeObject("", <<>>)

\* Expanded: Null, one Object, or an Array of objects; iterating it yields
\* its objects.
Expanded_Null == [tag |-> "Null", objs |-> <<>>]
Expanded_Object(o) == [tag |-> "Object", objs |-> <<o>>]
Expanded_Array(objs) == [tag |-> "Array", objs |-> objs]

\* Result<Expanded, Error>.
Ok(e) == [ok |-> TRUE, val |-> e, err |-> ""]
Err(code) == [ok |-> FALSE, val |-> Expanded_Null, err |-> code]
NoResult == [ok |-> FALSE, val |-> Expanded_Null, err |-> None]

Range(s) == {s[i] : i \in 1..Len(s)}

(***************************************************************************)
(* The recursion: expand_element and what it calls.                        *)
(***************************************************************************)
\* The arguments of a call of expand_element.
ElementArgs(element, ctx, property, base, opts, from_map) ==
    [element |-> element, active_context |-> ctx, active_property |-> property,
     base_url |-> base, options |-> opts, from_map |-> from_map]

NoArgs == ElementArgs(Leaf("null"), Context_new(None), None, None,
                      [ordered |-> FALSE], FALSE)

\* Whether an object key is a keyword or a term the active context defines;
\* any other key is dropped with a warning.
IsResolvable(ctx, key) ==
    key = "@graph" \/ Context_get(ctx, key) # NoDefinition

\* Whether expand_element recurses into the element.
IsNodeEntry(a) ==
    a.element.kind = "map" /\ IsResolvable(a.active_context, a.element.key)

\* Non-fatal anomalies met by expand_element on a given element itself.
ElementAnomalies(a) ==
    IF a.element.kind = "map" /\ ~IsResolvable(a.active_context, a.element.key)
    THEN 1 ELSE 0

\* expand_element on a scalar, null, `{}`, a malformed object, or an object
\* whose only key is dropped.
expand_literal(a) ==
    CASE a.element.kind \in Scalars ->
            Ok(Expanded_Object(ValueObject(a.element.kind)))
      [] a.element.kind = "null" -> Ok(Expanded_Null)
      [] a.element.kind = "bad" -> Err("InvalidKeywordUsage")
      [] OTHER -> Ok(Expanded_Object(EmptyNode))

\* expand_node: the call expanding the value of the entry of a node object.
expand_node_value_call(a) ==
    ElementArgs(a.element.items[1], a.active_context, a.element.key,
                a.base_url, a.options, FALSE)

\* expand_node: the node object made of the expanded value of its entry.
expand_node_result(key, res) ==
    IF ~res.ok THEN res
    ELSE IF key # "@graph" /\ res.val.objs = <<>>
    THEN Ok(Expanded_Object(EmptyNode))
    ELSE Ok(Expanded_Object(NodeObject(key, res.val.objs)))

\* The definition of the active property that expand_element hands to
\* expand_array.
active_property_definition(a) ==
    IF a.active_property = None THEN NoDefinition
    ELSE Context_get(a.active_context, a.active_property)

(***************************************************************************)
(* expand_array (crates/expansion/src/array.rs).                           *)
(***************************************************************************)
\* Lines 30-38: is_list.
expand_array_is_list(definition) ==
    definition # NoDefinition /\ "List" \in definition.container

\* Lines 29-38: the state of expand_array before its loop.
expand_array_enter(id, a, definition) ==
    [fn |-> "array", id |-> id, args |-> a, definition |-> definition,
     is_list |-> expand_array_is_list(definition), i |-> 1, result |-> <<>>]

\* Mutant of line 47: an item after the first is expanded against a context
\* that holds a definition made while a sibling was expanded.
expand_array_item_call_sibling_context(frame) ==
    ElementArgs(frame.args.element.items[frame.i],
                IF frame.i > 1
                THEN WithDefinitions(frame.args.active_context,
                                     {TermDefinition("s", {"Set"})})
                ELSE frame.args.active_context,
                frame.args.active_property, frame.args.base_url,
                frame.args.options, frame.args.from_map)

\* Lines 45-56: the call expanding item `i`.
expand_array_item_call(frame) ==
    ElementArgs(frame.args.element.items[frame.i], frame.args.active_context,
                frame.args.active_property, frame.args.base_url,
                frame.args.options, frame.args.from_map)

\* Mutant of line 57: an item that fails counts as an item that expands to
\* nothing, and the loop goes on.
expand_array_try_ignoring(res) == IF res.ok THEN res ELSE Ok(Expanded_Null)
\* Line 57: `.await?` on what expand_element returned for the item.
expand_array_try(res) == res

\* Mutants of line 59: the expansion of an item is put in front of the result;
\* the items of a List returned for an item are spliced into the result.
expand_array_extend_front(frame, e) ==
    [frame EXCEPT !.result = e.objs \o @, !.i = @ + 1]
expand_array_extend_flat(frame, e) ==
    [frame EXCEPT !.result = @ \o (IF e.tag = "Object" /\ e.objs[1].t = "list"
                                   THEN e.objs[1].items ELSE e.objs),
                  !.i = @ + 1]

\* Line 59: result.extend(e), and the loop moves to the next item.
expand_array_extend(frame, e) ==
    [frame EXCEPT !.result = @ \o e.objs, !.i = @ + 1]

\* Mutant of lines 62-69: the List container is ignored.
expand_array_return_spliced(frame) == Ok(Expanded_Array(frame.result))

\* Lines 62-69: the value expand_array returns after its loop.
expand_array_return(frame) ==
    IF frame.is_list
    THEN Ok(Expanded_Object(ListObject(frame.result)))
    ELSE Ok(Expanded_Array(frame.result))

\* The frame of a node object waiting for the expansion of its entry.
NodeFrame(a) ==
    [fn |-> "node", id |-> 0, args |-> a, definition |-> NoDefinition,
     is_list |-> FALSE, i |-> 1, result |-> <<>>]

Event(ev, frame, idx, a, def, res) ==
    [ev |-> ev, frame |-> frame, idx |-> idx, args |-> a, def |-> def, res |-> res]

Top(stk) == stk[Len(stk)]
Pop(stk) == SubSeq(stk, 1, Len(stk) - 1)

RECURSIVE Call(_, _), Return(_, _)
\* expand_element called with arguments `a`, the machine being `m`.
Call(m, a) ==
    IF a.element.kind = "array" THEN
        LET id == Len(m.log) + 1
            def == active_property_definition(a)
        IN [m EXCEPT !.stack = Append(@, expand_array_enter(id, a, def)),
                     !.log = Append(@, Event("enter", id, 0, a, def, NoResult))]
    ELSE IF IsNodeEntry(a) THEN
        Call([m EXCEPT !.stack = Append(@, NodeFrame(a))], expand_node_value_call(a))
    ELSE
        Return([m EXCEPT !.anomalies = @ + ElementAnomalies(a)], expand_literal(a))

\* A call returns `res` to the innermost frame of `m`.
Return(m, res) ==
    IF m.stack = <<>> THEN [m EXCEPT !.out = res]
    ELSE
        LET top == Top(m.stack)
            rest == Pop(m.stack)
        IN IF top.fn = "node" THEN
               Return([m EXCEPT !.stack = rest],
                      expand_node_result(top.args.element.key, res))
           ELSE IF expand_array_try(res).ok THEN
               \* array.rs line 57 (Ok) and line 59
               [m EXCEPT !.stack = Append(rest, expand_array_extend(top,
                                                    expand_array_try(res).val)),
                         !.log = Append(@, Event("ret", top.id, top.i, NoArgs,
                                                 NoDefinition, res))]
           ELSE
               \* array.rs line 57: `?` returns the error at once
               Return([m EXCEPT !.stack = rest,
                                !.log = @ \o <<Event("ret", top.id, top.i, NoArgs,
                                                     NoDefinition, res),
                                               Event("done", top.id, 0, NoArgs,
                                                     NoDefinition, res)>>],
                      res)

Machine == [stack |-> stack, log |-> log, anomalies |-> anomalies, out |-> NoResult]

\* The machine `m` becomes the next state.
Apply(m) ==
    /\ stack' = m.stack
    /\ log' = m.log
    /\ anomalies' = m.anomalies
    /\ IF m.out = NoResult
       THEN pc' = "running" /\ expanded' = expanded
       ELSE pc' = "returned" /\ expanded' = m.out

(***************************************************************************)
(* document::expand (crates/expansion/src/document.rs).                    *)
(***************************************************************************)
\* Mutant of lines 57-60: nothing is removed.
filter_top_level_item_all(item) == TRUE

\* Lines 57-60.
filter_top_level_item(item) == item.t # "value"

\* Object::into_unnamed_graph succeeds on a node carrying only @graph.
is_unnamed_graph(obj) == obj.t = "node" /\ obj.key = "@graph"

DocOk(objects) == [ok |-> TRUE, objects |-> objects, err |-> ""]
DocErr(code) == [ok |-> FALSE, objects |-> {}, err |-> code]
NoDocument == [ok |-> FALSE, objects |-> {}, err |-> None]

\* Lines 29-37: the call of expand_element.
document_expand_call ==
    ElementArgs(document, active_context, None, base_url, options, FALSE)

\* Mutant of lines 38-53: a single object is inserted without the filter.
document_expand_result_unfiltered(r) ==
    IF ~r.ok THEN DocErr(r.err)
    ELSE IF Len(r.val.objs) = 1 THEN
        LET obj == r.val.objs[1]
        IN IF obj.t = "node" /\ obj.key = "@graph" THEN DocOk(Range(obj.items))
           ELSE DocOk({obj})
    ELSE DocOk({o \in Range(r.val.objs) : o.t # "value"})

\* Mutant of lines 38-53: an unnamed graph is unwrapped wherever it stands,
\* also among several objects.
document_expand_result_unwrapping_all(r) ==
    IF ~r.ok THEN DocErr(r.err)
    ELSE DocOk(UNION {IF is_unnamed_graph(o) THEN Range(o.items)
                      ELSE IF filter_top_level_item(o) THEN {o} ELSE {} :
                      o \in Range(r.val.objs)})

\* Lines 38-53: from what expand_element returned to the result.
document_expand_result(r) ==
    IF ~r.ok THEN DocErr(r.err)
    ELSE IF Len(r.val.objs) = 1 THEN
        LET obj == r.val.objs[1]
        IN IF is_unnamed_graph(obj) THEN DocOk(Range(obj.items))
           ELSE DocOk(IF filter_top_level_item(obj) THEN {obj} ELSE {})
    ELSE DocOk({o \in Range(r.val.objs) : filter_top_level_item(o)})

(***************************************************************************)
(* Actions of the expansion.                                               *)
(***************************************************************************)
ExpansionInit ==
    /\ document \in Documents
    /\ active_context \in Contexts
    /\ base_url \in BaseUrls
    /\ options \in ExpansionOptions
    /\ pc = "start"
    /\ stack = <<>>
    /\ expanded = NoResult
    /\ result = NoDocument
    /\ log = <<>>
    /\ anomalies = 0
    /\ handled = 0

\* document::expand calls expand_element on the document.
DocumentExpand ==
    /\ pc = "start"
    /\ Apply(Call(Machine, document_expand_call))
    /\ UNCHANGED <<document, active_context, base_url, options, result, handled>>
    /\ UNCHANGED otherThanExpansion

\* expand_array expands its next item.
ExpandArrayItem ==
    /\ pc = "running"
    /\ Top(stack).i <= Len(Top(stack).args.element.items)
    /\ LET frame == Top(stack)
           a == expand_array_item_call(frame)
       IN Apply(Call([Machine EXCEPT
                        !.log = Append(@, Event("call", frame.id, frame.i, a,
                                                NoDefinition, NoResult))], a))
    /\ UNCHANGED <<document, active_context, base_url, options, result, handled>>
    /\ UNCHANGED otherThanExpansion

\* expand_array leaves its loop and returns.
ExpandArrayReturn ==
    /\ pc = "running"
    /\ Top(stack).i > Len(Top(stack).args.element.items)
    /\ LET frame == Top(stack)
           res == expand_array_return(frame)
       IN Apply(Return([Machine EXCEPT
                          !.stack = Pop(stack),
                          !.log = Append(@, Event("done", frame.id, 0, NoArgs,
                                                  NoDefinition, res))], res))
    /\ UNCHANGED <<document, active_context, base_url, options, result, handled>>
    /\ UNCHANGED otherThanExpansion

\* document::expand turns what the recursion returned into its result.
DocumentFinish ==
    /\ pc = "returned"
    /\ result' = document_expand_result(expanded)
    /\ pc' = IF expanded.ok THEN "done" ELSE "error"
    /\ UNCHANGED <<document, active_context, base_url, options, stack, expanded,
                   log, anomalies, handled>>
    /\ UNCHANGED otherThanExpansion

(***************************************************************************)
(* The processor facade (src/processor).                                   *)
(***************************************************************************)
\* Options (mod.rs 21-84) and Options::default (mod.rs 124-138).
Options_default ==
    [base |-> None, compact_arrays |-> TRUE, compact_to_relative |-> TRUE,
     expand_context |-> None, ordered |-> FALSE, processing_mode |-> "JsonLd1_1",
     rdf_direction |-> None, produce_generalized_rdf |-> FALSE,
     expansion_policy |-> "default"]

\* Mutant of mod.rs 89-94: unordered() starts from the default options
\* instead of `..self`.
Options_unordered_of_default(o) == [Options_default EXCEPT !.ordered = FALSE]
\* Options::unordered (mod.rs 89-94).
Options_unordered(o) == [o EXCEPT !.ordered = FALSE]

\* Options::with_expand_context (mod.rs 98-103).
Options_with_expand_context(o, context) == [o EXCEPT !.expand_context = context]

\* Options::context_processing_options (mod.rs 106-111).
context_processing_options(o) == [processing_mode |-> o.processing_mode]

\* Options::expansion_options (mod.rs 114-121).
expansion_options(o) ==
    [processing_mode |-> o.processing_mode, ordered |-> o.ordered,
     policy |-> o.expansion_policy]

DocumentUrl == "http://ex/doc"
LinkUrl == "http://ex/link"
BaseOption == "http://ex/base"
ExpandContextUrl == "http://ex/expand-context"

RemoteDocuments ==
    [url : {None, DocumentUrl}, context_url : {None, LinkUrl}]
ProcOptions ==
    {[Options_default EXCEPT !.base = b, !.expand_context = c, !.ordered = o] :
        b \in {None, BaseOption}, c \in {None, ExpandContextUrl}, o \in BOOLEAN}

\* The errors of the collaborators.
LoadErrors == {"CannotLoad", "EntryNotFound"}
ContextLoadErrors == {"LoadingContextFailed", "ContextExtractionFailed"}
ContextProcessingErrors == {"InvalidContextEntry", "ProtectedTermRedefinition"}
ExpansionErrors == {"InvalidKeywordUsage", "CollidingKeywords"}
Success == "Ok"

\* ExpandError (mod.rs 140-157) and ToRdfError (mod.rs 225-230).
ExpandError_Expansion(e) == [variant |-> "Expansion", cause |-> e]
ExpandError_ContextProcessing(e) == [variant |-> "ContextProcessing", cause |-> e]
ExpandError_Loading(e) == [variant |-> "Loading", cause |-> e]
\* Mutant: a context load failure reported as a document load failure.
ExpandError_ContextLoading_as_Loading(e) == [variant |-> "Loading", cause |-> e]
ExpandError_ContextLoading(e) == [variant |-> "ContextLoading", cause |-> e]
ToRdfError_Expand(e) == [variant |-> "Expand", cause |-> e]

\* The terms a remote context defines.
RemoteContext(iri) ==
    IF iri = ExpandContextUrl
    THEN {TermDefinition("p", {"Set"}), TermDefinition("l", {"List"})}
    ELSE {TermDefinition("p", {"List"}), TermDefinition("q", {})}

\* Process::process_full: a new context, the definitions of the local context
\* laid over those of the active context.
process_full(local, active, base) ==
    [active EXCEPT !.definitions =
        {d \in @ : \A n \in local : n.term # d.term} \cup local]

Pending == [ok |-> FALSE, value |-> None, error |-> [variant |-> None, cause |-> None]]
Returned(value) == [ok |-> TRUE, value |-> value, error |-> [variant |-> None, cause |-> None]]
Failed(error) == [ok |-> FALSE, value |-> None, error |-> error]
NoExpandArgs == [context |-> Context_new(None), base_url |-> None,
                 options |-> expansion_options(Options_default)]

Step(op, iri, against, base, status) ==
    [op |-> op, iri |-> iri, against |-> against, base |-> base, status |-> status]

\* Mutant of remote_document.rs 24-25: the document's URL goes first.
expand_full_initial_context_url_first ==
    Context_new(IF remote.url # None THEN remote.url ELSE call_options.base)

\* remote_document.rs 24-25: the initial active context.
expand_full_initial_context ==
    Context_new(IF call_options.base # None THEN call_options.base ELSE remote.url)

\* remote_document.rs 27: the expand context taken out of the options.
taken_expand_context == proc_options.expand_context

\* remote_document.rs 67: the base URL handed to the expansion algorithm.
expand_full_base_url ==
    IF remote.url # None THEN remote.url ELSE call_options.base

\* Mutant of remote_document.rs 51-53: the context link is processed against
\* the initial context, not against the one the expand context produced.
process_context_link_against_initial == expand_full_initial_context
\* remote_document.rs 51-53: the context the context link is processed against.
process_context_link_against == local_context

\* Mutant of the `?` of remote_document.rs 31, 43, 49, 61 and of line 72: a
\* failed step is passed over and the call goes on to the expansion.
Fail_and_go_on(error) ==
    /\ outcome' = outcome
    /\ ppc' = "expand"
\* to_rdf_full (mod.rs 590-593) wraps the error of expand_full; expand_full
\* returns its own.
Fail(error) ==
    /\ outcome' = Failed(IF operation = "to_rdf_full" THEN ToRdfError_Expand(error)
                         ELSE error)
    /\ ppc' = "error"

\* remote_document.rs 45: the step after the expand context.
AfterExpandContext ==
    IF remote.context_url # None THEN "load_context_link" ELSE "expand"

ProcInit ==
    /\ operation \in {"expand_full", "to_rdf_full"}
    /\ by_reference \in BOOLEAN
    /\ remote \in RemoteDocuments
    /\ proc_options \in ProcOptions
    /\ call_options = Options_default
    /\ ppc = "start"
    /\ local_context = Context_new(None)
    /\ expand_args = NoExpandArgs
    /\ trace = <<>>
    /\ outcome = Pending

ProcIdle ==
    /\ operation = None
    /\ by_reference = FALSE
    /\ remote = [url |-> None, context_url |-> None]
    /\ proc_options = Options_default
    /\ call_options = Options_default
    /\ ppc = "idle"
    /\ local_context = Context_new(None)
    /\ expand_args = NoExpandArgs
    /\ trace = <<>>
    /\ outcome = Pending

ExpansionIdle ==
    /\ document = Leaf("null")
    /\ active_context = EmptyContext
    /\ base_url = None
    /\ options = [ordered |-> FALSE]
    /\ pc = "idle"
    /\ stack = <<>>
    /\ expanded = NoResult
    /\ result = NoDocument
    /\ log = <<>>
    /\ anomalies = 0
    /\ handled = 0

\* The method is entered: to_rdf_full (mod.rs 587-591) calls expand_full with
\* options.unordered().
Enter ==
    /\ ppc = "start"
    /\ call_options' = IF operation = "to_rdf_full"
                       THEN Options_unordered(proc_options) ELSE proc_options
    /\ ppc' = IF by_reference THEN "load_document" ELSE "new_context"
    /\ UNCHANGED <<operation, by_reference, remote, proc_options, local_context,
                   expand_args, trace, outcome>>
    /\ UNCHANGED otherThanProc

\* remote_document.rs 90: the reference is loaded.
LoadDocument ==
    /\ ppc = "load_document"
    /\ \E status \in LoadErrors \cup {Success} :
        /\ trace' = Append(trace, Step("load_document", remote.url, local_context,
                                       None, status))
        /\ IF status = Success
           THEN ppc' = "new_context" /\ UNCHANGED outcome
           ELSE Fail(ExpandError_Loading(status))
    /\ UNCHANGED <<operation, by_reference, remote, proc_options, call_options,
                   local_context, expand_args>>
    /\ UNCHANGED otherThanProc

\* remote_document.rs 24-27: the initial context; the expand context is taken
\* out of the options.
NewContext ==
    /\ ppc = "new_context"
    /\ local_context' = expand_full_initial_context
    /\ trace' = Append(trace, Step("new_context", None, expand_full_initial_context,
                                   None, Success))
    /\ call_options' = [call_options EXCEPT !.expand_context = None]
    /\ ppc' = IF call_options.expand_context # None
              THEN "load_expand_context" ELSE AfterExpandContext
    /\ UNCHANGED <<operation, by_reference, remote, proc_options, expand_args, outcome>>
    /\ UNCHANGED otherThanProc

\* remote_document.rs 28-31.
LoadExpandContext ==
    /\ ppc = "load_expand_context"
    /\ \E status \in ContextLoadErrors \cup {Success} :
        /\ trace' = Append(trace, Step("load_context", taken_expand_context,
                                       local_context, None, status))
        /\ IF status = Success
           THEN ppc' = "process_expand_context" /\ UNCHANGED outcome
           ELSE Fail(ExpandError_ContextLoading(status))
    /\ UNCHANGED <<operation, by_reference, remote, proc_options, call_options,
                   local_context, expand_args>>
    /\ UNCHANGED otherThanProc

\* remote_document.rs 32-43.
ProcessExpandContext ==
    /\ ppc = "process_expand_context"
    /\ \E status \in ContextProcessingErrors \cup {Success} :
        /\ trace' = Append(trace, Step("process_context", taken_expand_context,
                                       local_context, local_context.original_base_url,
                                       status))
        /\ IF status = Success
           THEN /\ local_context' = process_full(RemoteContext(taken_expand_context),
                                                 local_context,
                                                 local_context.original_base_url)
                /\ ppc' = AfterExpandContext
                /\ UNCHANGED outcome
           ELSE /\ Fail(ExpandError_ContextProcessing(status))
                /\ UNCHANGED local_context
    /\ UNCHANGED <<operation, by_reference, remote, proc_options, call_options,
                   expand_args>>
    /\ UNCHANGED otherThanProc

\* remote_document.rs 45-49.
LoadContextLink ==
    /\ ppc = "load_context_link"
    /\ \E status \in ContextLoadErrors \cup {Success} :
        /\ trace' = Append(trace, Step("load_context", remote.context_url,
                                       local_context, None, status))
        /\ IF status = Success
           THEN ppc' = "process_context_link" /\ UNCHANGED outcome
           ELSE Fail(ExpandError_ContextLoading(status))
    /\ UNCHANGED <<operation, by_reference, remote, proc_options, call_options,
                   local_context, expand_args>>
    /\ UNCHANGED otherThanProc

\* remote_document.rs 50-61.
ProcessContextLink ==
    /\ ppc = "process_context_link"
    /\ \E status \in ContextProcessingErrors \cup {Success} :
        /\ trace' = Append(trace, Step("process_context", remote.context_url,
                                       process_context_link_against,
                                       remote.context_url, status))
        /\ IF status = Success
           THEN /\ local_context' = process_full(RemoteContext(remote.context_url),
                                                 process_context_link_against,
                                                 remote.context_url)
                /\ ppc' = "expand"
                /\ UNCHANGED outcome
           ELSE /\ Fail(ExpandError_ContextProcessing(status))
                /\ UNCHANGED local_context
    /\ UNCHANGED <<operation, by_reference, remote, proc_options, call_options,
                   expand_args>>
    /\ UNCHANGED otherThanProc

\* remote_document.rs 63-72: the expansion algorithm is run.  On success
\* expand_full returns the document; to_rdf_full goes on to ToRdf::new.
Expand ==
    /\ ppc = "expand"
    /\ expand_args' = [context |-> local_context, base_url |-> expand_full_base_url,
                       options |-> expansion_options(call_options)]
    /\ \E status \in ExpansionErrors \cup {Success} :
        /\ trace' = Append(trace, Step("expand", remote.url, local_context,
                                       expand_full_base_url, status))
        /\ IF status = Success
           THEN IF operation = "to_rdf_full"
                THEN ppc' = "to_rdf_new" /\ UNCHANGED outcome
                ELSE ppc' = "done" /\ outcome' = Returned("ExpandedDocument")
           ELSE Fail(ExpandError_Expansion(status))
    /\ UNCHANGED <<operation, by_reference, remote, proc_options, call_options,
                   local_context>>
    /\ UNCHANGED otherThanProc

\* mod.rs 594-600 and 898-918: ToRdf::new relabels the document.
ToRdfNew ==
    /\ ppc = "to_rdf_new"
    /\ trace' = Append(trace, Step("relabel_and_canonicalize", remote.url,
                                   local_context, None, Success))
    /\ outcome' = Returned("ToRdf")
    /\ ppc' = "done"
    /\ UNCHANGED <<operation, by_reference, remote, proc_options, call_options,
                   local_context, expand_args>>
    /\ UNCHANGED otherThanProc

(***************************************************************************)
(* Dropping the future of expand_full or to_rdf_full (remote_document.rs    *)
(* 23-73, mod.rs 586-600).  The methods return a boxed future; the caller   *)
(* may drop it while one of its awaits is pending.                          *)
(***************************************************************************)
\* The identifiers a vocabulary is asked to intern while a context or the
\* document is processed.
ContextIdentifiers(iri) == IF iri = ExpandContextUrl THEN {"_:e"} ELSE {"_:k"}
DocumentIdentifiers == {"_:d1", "_:d2"}

\* The awaits of the method: the position, the step pending there and the
\* identifiers the pending callee may intern before it is done.
Awaits ==
    {"load_document", "load_expand_context", "process_expand_context",
     "load_context_link", "process_context_link", "expand"}
PendingInterns(at) ==
    CASE at = "process_expand_context" -> ContextIdentifiers(taken_expand_context)
      [] at = "process_context_link" -> ContextIdentifiers(remote.context_url)
      [] at = "expand" -> DocumentIdentifiers
      [] OTHER -> {}

\* What a step of the trace has interned in the vocabulary lent to the call.
InternedBy(e) ==
    IF e.op = "drop" THEN e.partial
    ELSE IF e.status # Success THEN {}
    ELSE IF e.op = "process_context" THEN ContextIdentifiers(e.iri)
    ELSE IF e.op = "expand" THEN DocumentIdentifiers
    ELSE {}
Interned == UNION {InternedBy(trace[i]) : i \in 1..Len(trace)}

\* Mutant: dropping the future hands the caller what was expanded so far.
future_dropped_partial_result(o) == Returned("ExpandedDocument")
\* The result of the method is the output of its future (remote_document.rs
\* 23, mod.rs 586): once the future is dropped the caller holds what it held.
future_dropped(o) == o

\* The caller drops the future while the await at `ppc` is pending; what the
\* pending callee had interned by then stays in the vocabulary.
Drop ==
    /\ ppc \in Awaits
    /\ \E part \in SUBSET PendingInterns(ppc) :
        trace' = Append(trace,
            [op |-> "drop", iri |-> None, against |-> local_context, base |-> None,
             status |-> "Dropped", at |-> ppc, partial |-> part])
    /\ outcome' = future_dropped(outcome)
    /\ ppc' = "dropped"
    /\ UNCHANGED <<operation, by_reference, remote, proc_options, call_options,
                   local_context, expand_args>>
    /\ UNCHANGED otherThanProc

(***************************************************************************)
(* Warning handlers (crates/core/src/warning.rs).                          *)
(***************************************************************************)
\* Number of warnings emitted in a run.
MaxWarnings == 3

Warnings == {"MalformedIri", "EmptyTerm", "BlankNodeIdProperty"}
Vocabularies == {"vocabulary", "no_vocabulary"}
Handlers == {"()", "H", "&mut H", "Print", "PrintWith"}

RECURSIVE SeqsUpTo(_, _)
SeqsUpTo(S, n) ==
    IF n = 0 THEN {<<>>}
    ELSE SeqsUpTo(S, n - 1)
         \cup {Append(q, x) : q \in {r \in SeqsUpTo(S, n - 1) : Len(r) = n - 1}, x \in S}

\* A handler H written by the caller: it keeps what it is given.
H_handle(state, v, warning) ==
    Append(state, [vocabulary |-> v, warning |-> warning])

\* warning.rs 13-15: `()` ignores the warning.
unit_handle(state, v, warning) == state

\* Mutant of warning.rs 17-21: the warning is forwarded twice.
mut_ref_handle_twice(state, v, warning) ==
    H_handle(H_handle(state, v, warning), v, warning)
\* warning.rs 17-21: `&mut H` forwards to H.
mut_ref_handle(state, v, warning) == H_handle(state, v, warning)

\* warning.rs 25-31 and 36-42: Print and PrintWith write to the standard
\* error stream when the std feature is on, and keep nothing.
Print_handle(state, v, warning) == state

\* Handler::handle (warning.rs 8-11) of the handler in use; it returns nothing.
Handler_handle(h, state, v, warning) ==
    CASE h = "()" -> unit_handle(state, v, warning)
      [] h = "H" -> H_handle(state, v, warning)
      [] h = "&mut H" -> mut_ref_handle(state, v, warning)
      [] OTHER -> Print_handle(state, v, warning)

WarnInit ==
    /\ installed \in Handlers
    /\ vocabulary \in Vocabularies
    /\ pending \in SeqsUpTo(Warnings, MaxWarnings)
    /\ emitted = <<>>
    /\ received = <<>>
    /\ wpc = "running"
    /\ processed = 0

WarnIdle ==
    /\ installed = "()"
    /\ vocabulary = "no_vocabulary"
    /\ pending = <<>>
    /\ emitted = <<>>
    /\ received = <<>>
    /\ wpc = "idle"
    /\ processed = 0

\* The code meets a non-fatal anomaly: it calls the handler and goes on.
EmitWarning ==
    /\ wpc = "running"
    /\ pending # <<>>
    /\ received' = Handler_handle(installed, received, vocabulary, Head(pending))
    /\ emitted' = Append(emitted, Head(pending))
    /\ pending' = Tail(pending)
    /\ processed' = processed + 1
    /\ UNCHANGED <<installed, vocabulary, wpc>>
    /\ UNCHANGED otherThanWarn

\* The code ends.
EndOfProcessing ==
    /\ wpc = "running"
    /\ pending = <<>>
    /\ wpc' = "done"
    /\ UNCHANGED <<installed, vocabulary, pending, emitted, received, processed>>
    /\ UNCHANGED otherThanWarn

(***************************************************************************)
(* Conversion to RDF (src/processor/mod.rs: to_rdf_full and ToRdf).  A     *)
(* caller runs the same method twice on the same input, each time with a    *)
(* generator it has just created from the same seed.                        *)
(***************************************************************************)
\* Number of node objects in a document converted to RDF.
MaxRdfNodes == 3

\* The keys of the entries of the input document, by lexicographic rank.
NodeKeys == 1..MaxRdfNodes
GeneratorSeeds == {0, 10}

\* The identifier of a node: none, an IRI of the document, or a blank node
\* label made by a generator.
NoId == [kind |-> "none", n |-> 0]
IriId(k) == [kind |-> "iri", n |-> k]
BlankId(n) == [kind |-> "blank", n |-> n]

\* An entry of the input document: a key and a node object, with an `@id`
\* or without.
RdfEntries == [key : NodeKeys, id : {NoId} \cup {IriId(1)}]
RdfInputs ==
    {q \in SeqsUpTo(RdfEntries, MaxRdfNodes) :
        \A i, j \in 1..Len(q) : q[i].key = q[j].key => i = j}
RdfOptions == {[Options_default EXCEPT !.ordered = o] : o \in BOOLEAN}

\* A generator of blank node labels: a seed and the number of labels made.
Generator_new(seed) == [seed |-> seed, made |-> 0]
Generator_next(g) ==
    [label |-> BlankId(g.seed + g.made + 1), generator |-> [g EXCEPT !.made = @ + 1]]

\* The entries of a document in the order the expansion goes through them:
\* by key when `ordered` is set, in document order otherwise.
RECURSIVE InsertByKey(_, _)
InsertByKey(q, e) ==
    IF q = <<>> THEN <<e>>
    ELSE IF e.key < Head(q).key THEN <<e>> \o q
    ELSE <<Head(q)>> \o InsertByKey(Tail(q), e)

RECURSIVE SortByKey(_)
SortByKey(q) ==
    IF q = <<>> THEN <<>> ELSE InsertByKey(SortByKey(Tail(q)), Head(q))

expand_entries(input, opts) ==
    IF opts.ordered THEN SortByKey(input) ELSE input

\* ExpandedDocument::relabel_and_canonicalize_with: every node without an
\* identifier gets the next label of the generator, in the order of the
\* document.
RECURSIVE relabel_and_canonicalize_with(_, _)
relabel_and_canonicalize_with(d, g) ==
    IF d = <<>> THEN [doc |-> <<>>, generator |-> g]
    ELSE IF Head(d).id = NoId
    THEN LET next == Generator_next(g)
             rest == relabel_and_canonicalize_with(Tail(d), next.generator)
         IN [doc |-> <<[Head(d) EXCEPT !.id = next.label]>> \o rest.doc,
             generator |-> rest.generator]
    ELSE LET rest == relabel_and_canonicalize_with(Tail(d), g)
         IN [doc |-> <<Head(d)>> \o rest.doc, generator |-> rest.generator]

\* ExpandedDocument::rdf_quads_full: one quad per node, in the default graph.
RootId == IriId(0)
Quad(subject, predicate, object) ==
    [s |-> subject, p |-> predicate, o |-> object, g |-> None]
rdf_quads_full(d) == {Quad(RootId, d[i].key, d[i].id) : i \in 1..Len(d)}

\* Mutant of mod.rs 590: the second run expands in key order.
to_rdf_full_options_second_run_ordered(o) ==
    IF run = 2 THEN [o EXCEPT !.ordered = TRUE] ELSE Options_unordered(o)
\* Mutant of mod.rs 590: the options of the caller are handed on as they are.
to_rdf_full_options_as_given(o) == o
\* mod.rs 590: to_rdf_full expands with options.unordered().
to_rdf_full_options(o) == Options_unordered(o)

\* Mutant of mod.rs 910: ToRdf::new leaves the document as it is.
ToRdf_new_without_relabel(d, g) == [doc |-> d, generator |-> g, relabeled |-> 0]
\* Mutant of mod.rs 910: the labels come from a generator that goes on from
\* one run to the next instead of the one given by the caller.
ToRdf_new_shared_generator(d, g) ==
    LET shared == [g EXCEPT !.made = @ + (run - 1) * Len(d)]
        r == relabel_and_canonicalize_with(d, shared)
    IN [doc |-> r.doc, generator |-> r.generator, relabeled |-> 1]
\* ToRdf::new (mod.rs 899-918): the document is relabeled with the caller's
\* generator, once.
ToRdf_new(d, g) ==
    LET r == relabel_and_canonicalize_with(d, g)
    IN [doc |-> r.doc, generator |-> r.generator, relabeled |-> 1]

\* ToRdf::quads (mod.rs 920-927).
ToRdf_quads(d) == rdf_quads_full(d)

\* What a run has returned to the caller.
RunResult(outcome_, d, q, g) ==
    [outcome |-> outcome_, doc |-> d, quads |-> q, generator |-> g]

RdfInit ==
    /\ rdf_method \in {"expand_full", "to_rdf_full"}
    /\ rdf_input \in RdfInputs
    /\ rdf_options \in RdfOptions
    /\ rdf_seed \in GeneratorSeeds
    /\ rdf_failure \in {None, "InvalidKeywordUsage"}
    /\ run = 1
    /\ rpc = "start"
    /\ generator = Generator_new(rdf_seed)
    /\ doc = <<>>
    /\ relabeled = 0
    /\ quads = {}
    /\ finished = <<>>

RdfIdle ==
    /\ rdf_method = None
    /\ rdf_input = <<>>
    /\ rdf_options = Options_default
    /\ rdf_seed = 0
    /\ rdf_failure = None
    /\ run = 0
    /\ rpc = "idle"
    /\ generator = Generator_new(0)
    /\ doc = <<>>
    /\ relabeled = 0
    /\ quads = {}
    /\ finished = <<>>

\* expand_full, called by the caller or by to_rdf_full (mod.rs 587-592).  An
\* error of the expansion is returned, wrapped by to_rdf_full; no ToRdf is
\* made.
RdfExpand ==
    /\ rpc = "start"
    /\ LET used == IF rdf_method = "to_rdf_full"
                   THEN to_rdf_full_options(rdf_options) ELSE rdf_options
           d == expand_entries(rdf_input, expansion_options(used))
       IN IF rdf_failure # None
          THEN /\ rpc' = "error"
               /\ finished' = Append(finished,
                    RunResult(Failed(IF rdf_method = "to_rdf_full"
                                     THEN ToRdfError_Expand(ExpandError_Expansion(rdf_failure))
                                     ELSE ExpandError_Expansion(rdf_failure)),
                              <<>>, {}, generator))
               /\ UNCHANGED doc
          ELSE /\ doc' = d
               /\ IF rdf_method = "to_rdf_full"
                  THEN rpc' = "to_rdf_new" /\ UNCHANGED finished
                  ELSE /\ rpc' = "done"
                       /\ finished' = Append(finished,
                            RunResult(Returned("ExpandedDocument"), d, {}, generator))
    /\ UNCHANGED <<rdf_method, rdf_input, rdf_options, rdf_seed, rdf_failure, run,
                   generator, relabeled, quads>>
    /\ UNCHANGED otherThanRdf

\* mod.rs 593-599 and 899-918: to_rdf_full returns ToRdf::new(..).
RdfNew ==
    /\ rpc = "to_rdf_new"
    /\ LET r == ToRdf_new(doc, generator)
       IN /\ doc' = r.doc
          /\ generator' = r.generator
          /\ relabeled' = relabeled + r.relabeled
    /\ rpc' = "to_rdf"
    /\ UNCHANGED <<rdf_method, rdf_input, rdf_options, rdf_seed, rdf_failure, run,
                   quads, finished>>
    /\ UNCHANGED otherThanRdf

\* mod.rs 920-927: the caller takes the quads of the ToRdf it was given.
RdfQuads ==
    /\ rpc = "to_rdf"
    /\ quads' = ToRdf_quads(doc)
    /\ finished' = Append(finished, RunResult(Returned("ToRdf"), doc, ToRdf_quads(doc), generator))
    /\ rpc' = "done"
    /\ UNCHANGED <<rdf_method, rdf_input, rdf_options, rdf_seed, rdf_failure, run,
                   generator, doc, relabeled>>
    /\ UNCHANGED otherThanRdf

\* The caller runs the method again on the same input, with a new generator
\* made from the same seed.
RdfAgain ==
    /\ rpc \in {"done", "error"}
    /\ run = 1
    /\ run' = 2
    /\ rpc' = "start"
    /\ generator' = Generator_new(rdf_seed)
    /\ doc' = <<>>
    /\ relabeled' = 0
    /\ quads' = {}
    /\ UNCHANGED <<rdf_method, rdf_input, rdf_options, rdf_seed, rdf_failure, finished>>
    /\ UNCHANGED otherThanRdf

(***************************************************************************)
(* Context processing: protected terms.  A sequence of local contexts,      *)
(* each nested in the scope of the one before, is processed one after the   *)
(* other, each against the active context the one before produced.          *)
(***************************************************************************)
\* Number of local contexts processed in a row.
MaxContexts == 3

Terms == {"name", "age"}
TermIris == {"http://ex/name", "http://ex/other"}

\* A term definition of an active context, and the absence of one.
Undefined == [defined |-> FALSE, iri |-> None, protected |-> FALSE]
Defined(iri, protected) == [defined |-> TRUE, iri |-> iri, protected |-> protected]

\* A local context: `null`, or an object defining one term.
NullContext == [null |-> TRUE, term |-> None, iri |-> None, protected |-> FALSE]
TermContext(term, iri, protected) ==
    [null |-> FALSE, term |-> term, iri |-> iri, protected |-> protected]
LocalContexts ==
    {NullContext} \cup
    {TermContext(t, i, p) : t \in Terms, i \in TermIris, p \in BOOLEAN}

NoDefinitions == [t \in Terms |-> Undefined]
CtxOk(definitions) == [ok |-> TRUE, definitions |-> definitions, error |-> None]
CtxErr(code) == [ok |-> FALSE, definitions |-> NoDefinitions, error |-> code]
CtxPending == [ok |-> FALSE, definitions |-> NoDefinitions, error |-> "Pending"]

\* Two definitions are the same when they differ in nothing but `protected`.
SameDefinition(a, b) == a.defined = b.defined /\ a.iri = b.iri

\* Mutant: a protected term is overridden like any other.
define_term_overriding(definitions, local) ==
    CtxOk([definitions EXCEPT ![local.term] = Defined(local.iri, local.protected)])
\* The definition of a term by a local context: a protected term can only be
\* redefined as it is, and then stays as it is.
define_term(definitions, local) ==
    LET previous == definitions[local.term]
        new == Defined(local.iri, local.protected)
    IN IF previous.defined /\ previous.protected
       THEN IF SameDefinition(previous, new)
            THEN CtxOk(definitions)
            ELSE CtxErr("ProtectedTermRedefinition")
       ELSE CtxOk([definitions EXCEPT ![local.term] = new])

\* The processing of one local context against the active context.  `null`
\* clears the definitions and is an error when a term is protected.
process_local_context(definitions, local) ==
    IF local.null
    THEN IF \E t \in Terms : definitions[t].protected
         THEN CtxErr("InvalidContextNullification")
         ELSE CtxOk(NoDefinitions)
    ELSE define_term(definitions, local)

CtxInit ==
    /\ ctx_active = NoDefinitions
    /\ ctx_locals \in SeqsUpTo(LocalContexts, MaxContexts)
    /\ cpc = "running"
    /\ ctx_result = CtxPending
    /\ ctx_history = <<>>

CtxIdle ==
    /\ ctx_active = NoDefinitions
    /\ ctx_locals = <<>>
    /\ cpc = "idle"
    /\ ctx_result = CtxPending
    /\ ctx_history = <<>>

\* The next local context is processed.  On success its result is the active
\* context of the scope nested in it; on error nothing is returned and the
\* processing of the document stops.
ProcessLocalContext ==
    /\ cpc = "running"
    /\ ctx_locals # <<>>
    /\ LET r == process_local_context(ctx_active, Head(ctx_locals))
       IN /\ ctx_result' = r
          /\ ctx_history' = Append(ctx_history,
                [local |-> Head(ctx_locals), before |-> ctx_active, result |-> r])
          /\ ctx_active' = IF r.ok THEN r.definitions ELSE ctx_active
          /\ cpc' = IF r.ok THEN "running" ELSE "error"
    /\ ctx_locals' = Tail(ctx_locals)
    /\ UNCHANGED otherThanCtx

\* No local context is left.
ContextsDone ==
    /\ cpc = "running"
    /\ ctx_locals = <<>>
    /\ cpc' = "done"
    /\ UNCHANGED <<ctx_active, ctx_locals, ctx_result, ctx_history>>
    /\ UNCHANGED otherThanCtx

(***************************************************************************)
(* Error codes (src/processor/mod.rs 140-239).  An error is a chain: the    *)
(* cause first, then each error that wraps the one before.                  *)
(***************************************************************************)
Layer(type, variant) == [type |-> type, variant |-> variant]

\* The causes: the errors of the expansion, of context processing, of the
\* loaders, and the conflict found by flattening.
ErrorCauses ==
    {Layer("expansion::Error", v) : v \in ExpansionErrors}
    \cup {Layer("context_processing::Error", v) : v \in ContextProcessingErrors}
    \cup {Layer("LoadError", v) : v \in LoadErrors}
    \cup {Layer("ContextLoadError", v) : v \in ContextLoadErrors}
    \cup {Layer("ConflictingIndexes", "ConflictingIndexes")}

NoCode == "NoCode"
Wrapped(chain) == SubSeq(chain, 1, Len(chain) - 1)

\* expansion::Error::code and context_processing::Error::code: the code
\* named after the error.
expansion_Error_code(chain) == [code |-> Top(chain).variant]
context_processing_Error_code(chain) == [code |-> Top(chain).variant]

\* Mutant of mod.rs 163: an expansion failure has a code of its own.
ExpandError_code_own(chain) ==
    CASE Top(chain).variant = "Expansion" -> [code |-> "ExpansionFailed"]
      [] Top(chain).variant = "ContextProcessing" ->
            context_processing_Error_code(Wrapped(chain))
      [] Top(chain).variant = "Loading" -> [code |-> "LoadingDocumentFailed"]
      [] Top(chain).variant = "ContextLoading" -> [code |-> "LoadingRemoteContextFailed"]
\* ExpandError::code (mod.rs 159-169).
ExpandError_code(chain) ==
    CASE Top(chain).variant = "Expansion" -> expansion_Error_code(Wrapped(chain))
      [] Top(chain).variant = "ContextProcessing" ->
            context_processing_Error_code(Wrapped(chain))
      [] Top(chain).variant = "Loading" -> [code |-> "LoadingDocumentFailed"]
      [] Top(chain).variant = "ContextLoading" -> [code |-> "LoadingRemoteContextFailed"]

\* FlattenError::code (mod.rs 212-222).
FlattenError_code(chain) ==
    CASE Top(chain).variant = "Expand" -> ExpandError_code(Wrapped(chain))
      [] Top(chain).variant = "ConflictingIndexes" -> [code |-> "ConflictingIndexes"]
      [] Top(chain).variant = "Loading" -> [code |-> "LoadingDocumentFailed"]
      [] Top(chain).variant = "ContextLoading" -> [code |-> "LoadingRemoteContextFailed"]

\* ToRdfError::code (mod.rs 232-239).
ToRdfError_code(chain) ==
    CASE Top(chain).variant = "Expand" -> ExpandError_code(Wrapped(chain))

\* The types with a method `code`.
HasCode(chain) ==
    Top(chain).type \in {"expansion::Error", "context_processing::Error",
                         "ExpandError", "FlattenError", "ToRdfError"}

\* `code()` called on an error.
Error_code(chain) ==
    CASE Top(chain).type = "expansion::Error" -> expansion_Error_code(chain)
      [] Top(chain).type = "context_processing::Error" ->
            context_processing_Error_code(chain)
      [] Top(chain).type = "ExpandError" -> ExpandError_code(chain)
      [] Top(chain).type = "FlattenError" -> FlattenError_code(chain)
      [] Top(chain).type = "ToRdfError" -> ToRdfError_code(chain)

\* The variants of each error type (mod.rs 140-157, 176-192, 194-209,
\* 225-230) that can hold an error of the given type.
ExpandError_variants(type) ==
    CASE type = "expansion::Error" -> {"Expansion"}
      [] type = "context_processing::Error" -> {"ContextProcessing"}
      [] type = "LoadError" -> {"Loading"}
      [] type = "ContextLoadError" -> {"ContextLoading"}
      [] OTHER -> {}
CompactError_variants(type) ==
    CASE type = "ExpandError" -> {"Expand"}
      [] type = "context_processing::Error" -> {"ContextProcessing"}
      [] type = "LoadError" -> {"Loading"}
      [] type = "ContextLoadError" -> {"ContextLoading"}
      [] OTHER -> {}
FlattenError_variants(type) ==
    CASE type = "ExpandError" -> {"Expand"}
      [] type = "ConflictingIndexes" -> {"ConflictingIndexes"}
      [] type = "LoadError" -> {"Loading"}
      [] type = "ContextLoadError" -> {"ContextLoading"}
      [] OTHER -> {}
ToRdfError_variants(type) ==
    CASE type = "ExpandError" -> {"Expand"}
      [] OTHER -> {}

CodeInit ==
    /\ err_chain \in {<<c>> : c \in ErrorCauses}
    /\ codes = <<NoCode>>

CodeIdle ==
    /\ err_chain = <<>>
    /\ codes = <<>>

\* An error is put in a variant of the error type `type`.
WrapIn(type, variants) ==
    /\ err_chain # <<>>
    /\ \E v \in variants :
        err_chain' = Append(err_chain, Layer(type, v))
    /\ codes' = Append(codes, NoCode)
    /\ UNCHANGED otherThanCode

WrapInExpandError ==
    WrapIn("ExpandError", ExpandError_variants(Top(err_chain).type))
WrapInCompactError ==
    WrapIn("CompactError", CompactError_variants(Top(err_chain).type))
WrapInFlattenError ==
    WrapIn("FlattenError", FlattenError_variants(Top(err_chain).type))
WrapInToRdfError ==
    WrapIn("ToRdfError", ToRdfError_variants(Top(err_chain).type))

\* A caller that holds the error at depth `i` of the chain asks for its code.
TakeCode ==
    /\ \E i \in 1..Len(err_chain) :
        /\ HasCode(SubSeq(err_chain, 1, i))
        /\ codes[i] = NoCode
        /\ codes' = [codes EXCEPT ![i] = Error_code(SubSeq(err_chain, 1, i)).code]
    /\ UNCHANGED err_chain
    /\ UNCHANGED otherThanCode

(***************************************************************************)
(* Loaders (crates/core/src/loader: none.rs, map.rs, chain.rs).            *)
(***************************************************************************)
\* Number of loaders combined by ChainLoaders into one loader.
MaxLoaders == 3

UrlA == "http://ex/a"
UrlB == "http://ex/b"
LoadUrls == {UrlA, UrlB}

\* A loader: NoLoader, a map from urls to documents, or a ChainLoader of two
\* loaders.
NoLoader == [kind |-> "NoLoader", entries |-> {}, parts |-> <<>>]
MapLoader(kind, entries) == [kind |-> kind, entries |-> entries, parts |-> <<>>]
ChainLoader_new(l1, l2) == [kind |-> "ChainLoader", entries |-> {}, parts |-> <<l1, l2>>]

SimpleLoaders ==
    {NoLoader,
     MapLoader("HashMap", {}),
     MapLoader("HashMap", {<<UrlA, "document 1">>}),
     MapLoader("BTreeMap", {<<UrlA, "document 2">>}),
     MapLoader("BTreeMap", {<<UrlA, "document 1">>, <<UrlB, "document 3">>})}

RECURSIVE LoadersOfSize(_)
LoadersOfSize(n) ==
    IF n = 1 THEN SimpleLoaders
    ELSE UNION {{ChainLoader_new(a, b) : a \in LoadersOfSize(k), b \in LoadersOfSize(n - k)} :
                k \in 1..(n - 1)}
Loaders == UNION {LoadersOfSize(n) : n \in 1..MaxLoaders}

\* The loader at a place of a loader: <<>> is the loader itself, <<1>> the
\* first loader of a ChainLoader, <<1, 2>> the second loader of that one.
RECURSIVE LoaderAt(_, _)
LoaderAt(l, path) ==
    IF path = <<>> THEN l ELSE LoaderAt(l.parts[Head(path)], Tail(path))

\* LoadErrorCause: the error of a loader, or chain::Error (chain.rs 53).
Cause(name) == [name |-> name, parts |-> <<>>]
chain_Error(e1, e2) == [name |-> "chain::Error", parts |-> <<e1, e2>>]
NoCause == Cause("")

\* LoadingResult.
LoadOk(document_) == [ok |-> TRUE, doc |-> document_, target |-> "", cause |-> NoCause]
LoadError_new(target, cause) == [ok |-> FALSE, doc |-> "", target |-> target, cause |-> cause]
NotLoaded == [ok |-> FALSE, doc |-> "", target |-> "", cause |-> NoCause]

\* NoLoader::load (none.rs 22-26).
NoLoader_load(url) == LoadError_new(url, Cause("CannotLoad"))

\* Mutant of map.rs 26-29: a map that holds documents answers with one of
\* them whatever the url.
Map_load_any(entries, url) ==
    IF entries # {}
    THEN LoadOk((CHOOSE e \in entries : TRUE)[2])
    ELSE LoadError_new(url, Cause("EntryNotFound"))
\* <HashMap as Loader>::load and <BTreeMap as Loader>::load (map.rs 20-46).
Map_load(entries, url) ==
    IF \E e \in entries : e[1] = url
    THEN LoadOk((CHOOSE e \in entries : e[1] = url)[2])
    ELSE LoadError_new(url, Cause("EntryNotFound"))

\* Mutant of chain.rs 42-44: only the second cause is kept.
ChainLoader_load_both_failed_second_only(e1, second) == second
\* chain.rs 42-44: both loaders failed.
ChainLoader_load_both_failed(e1, second) ==
    LoadError_new(second.target, chain_Error(e1, second.cause))

Calling(path) == [mode |-> "call", path |-> path, res |-> NotLoaded]
Returning(path, res) == [mode |-> "ret", path |-> path, res |-> res]
LoadEvent(ev, path, url, res) == [ev |-> ev, path |-> path, url |-> url, res |-> res]
ChainFrame(path, stage, e1) == [path |-> path, stage |-> stage, e1 |-> e1]

LoaderInit ==
    /\ load_loader \in Loaders
    /\ load_url \in LoadUrls
    /\ lstack = <<>>
    /\ lcur = Calling(<<>>)
    /\ load_log = <<>>
    /\ load_result = NotLoaded

LoaderIdle ==
    /\ load_loader = NoLoader
    /\ load_url = UrlA
    /\ lstack = <<>>
    /\ lcur = [mode |-> "idle", path |-> <<>>, res |-> NotLoaded]
    /\ load_log = <<>>
    /\ load_result = NotLoaded

\* chain.rs 38: ChainLoader::load calls its first loader with the url.
ChainLoadFirst ==
    /\ lcur.mode = "call"
    /\ LoaderAt(load_loader, lcur.path).kind = "ChainLoader"
    /\ lstack' = Append(lstack, ChainFrame(lcur.path, 1, NoCause))
    /\ load_log' = Append(load_log, LoadEvent("call", lcur.path, load_url, NotLoaded))
    /\ lcur' = Calling(Append(lcur.path, 1))
    /\ UNCHANGED <<load_loader, load_url, load_result>>
    /\ UNCHANGED otherThanLoader

\* none.rs 23-25.
NoLoaderLoad ==
    /\ lcur.mode = "call"
    /\ LoaderAt(load_loader, lcur.path).kind = "NoLoader"
    /\ LET res == NoLoader_load(load_url)
       IN /\ load_log' = load_log \o <<LoadEvent("call", lcur.path, load_url, NotLoaded),
                                       LoadEvent("ret", lcur.path, load_url, res)>>
          /\ lcur' = Returning(lcur.path, res)
    /\ UNCHANGED <<load_loader, load_url, lstack, load_result>>
    /\ UNCHANGED otherThanLoader

\* map.rs 25-30 and 39-44.
MapLoad ==
    /\ lcur.mode = "call"
    /\ LoaderAt(load_loader, lcur.path).kind \in {"HashMap", "BTreeMap"}
    /\ LET res == Map_load(LoaderAt(load_loader, lcur.path).entries, load_url)
       IN /\ load_log' = load_log \o <<LoadEvent("call", lcur.path, load_url, NotLoaded),
                                       LoadEvent("ret", lcur.path, load_url, res)>>
          /\ lcur' = Returning(lcur.path, res)
    /\ UNCHANGED <<load_loader, load_url, lstack, load_result>>
    /\ UNCHANGED otherThanLoader

\* chain.rs 38-40: the first loader has returned.  Its document is the
\* result; on an error its cause is kept and the second loader is called
\* with the same url.
ChainAfterFirst ==
    /\ lcur.mode = "ret"
    /\ lstack # <<>>
    /\ Top(lstack).stage = 1
    /\ IF lcur.res.ok
       THEN /\ lstack' = Pop(lstack)
            /\ lcur' = Returning(Top(lstack).path, lcur.res)
            /\ load_log' = Append(load_log,
                    LoadEvent("ret", Top(lstack).path, load_url, lcur.res))
       ELSE /\ lstack' = Append(Pop(lstack),
                                ChainFrame(Top(lstack).path, 2, lcur.res.cause))
            /\ lcur' = Calling(Append(Top(lstack).path, 2))
            /\ UNCHANGED load_log
    /\ UNCHANGED <<load_loader, load_url, load_result>>
    /\ UNCHANGED otherThanLoader

\* chain.rs 40-45: the second loader has returned.
ChainAfterSecond ==
    /\ lcur.mode = "ret"
    /\ lstack # <<>>
    /\ Top(lstack).stage = 2
    /\ LET res == IF lcur.res.ok THEN lcur.res
                  ELSE ChainLoader_load_both_failed(Top(lstack).e1, lcur.res)
       IN /\ lcur' = Returning(Top(lstack).path, res)
          /\ load_log' = Append(load_log,
                LoadEvent("ret", Top(lstack).path, load_url, res))
    /\ lstack' = Pop(lstack)
    /\ UNCHANGED <<load_loader, load_url, load_result>>
    /\ UNCHANGED otherThanLoader

\* The outermost `load` returns to its caller.
LoadReturn ==
    /\ lcur.mode = "ret"
    /\ lstack = <<>>
    /\ load_result' = lcur.res
    /\ lcur' = [mode |-> "done", path |-> <<>>, res |-> lcur.res]
    /\ UNCHANGED <<load_loader, load_url, lstack, load_log>>
    /\ UNCHANGED otherThanLoader

(***************************************************************************)
(* The trait Expand (crates/expansion/src/lib.rs 112-244).                 *)
(***************************************************************************)
\* What `expand` and `expand_with` can be called on: a JSON value, or a
\* RemoteDocument with or without a url.
Receivers ==
    {[kind |-> "Value", url |-> None, document |-> d] : d \in JsonOfSize(1)}
    \cup {[kind |-> "RemoteDocument", url |-> u, document |-> d] :
            u \in {None, DocumentUrl, LinkUrl}, d \in JsonOfSize(1)}

\* vocabulary::no_vocabulary_mut().
NoVocabulary == "no_vocabulary"

\* Options::default() of the expansion.
expansion_Options_default ==
    [processing_mode |-> "JsonLd1_1", ordered |-> FALSE, policy |-> "default"]

\* Mutant of lib.rs 218-220: a RemoteDocument has no default base URL.
default_base_url_none(r) == None
\* Expand::default_base_url: lib.rs 188-190 (Value), 218-220 (RemoteDocument).
default_base_url(r) == IF r.kind = "Value" THEN None ELSE r.url

TraitCall(fn, on, v, context, base, opts) ==
    [fn |-> fn, on |-> on, vocabulary |-> v, context |-> context, base_url |-> base,
     options |-> opts]
NoTraitCall ==
    TraitCall("idle", "Value", NoVocabulary, Context_new(None), None,
              expansion_Options_default)

\* Expand::expand (lib.rs 172-183).
Expand_expand(r) ==
    TraitCall("expand_with", r.kind, NoVocabulary, Context_new(None), None,
              expansion_Options_default)

\* Expand::expand_with (lib.rs 147-164).
Expand_expand_with(r, v) ==
    TraitCall("expand_full", r.kind, v, Context_new(default_base_url(r)),
              default_base_url(r), expansion_Options_default)

\* <RemoteDocument as Expand>::expand_full (lib.rs 226-243).
RemoteDocument_expand_full(call) == [call EXCEPT !.on = "Value"]

\* <Value as Expand>::expand_full (lib.rs 193-212).
Value_expand_full(call) == [call EXCEPT !.fn = "document::expand"]

TraitInit ==
    /\ receiver \in Receivers
    /\ trait_method \in {"expand", "expand_with"}
    /\ caller_vocabulary \in
            IF trait_method = "expand" THEN {NoVocabulary} ELSE Vocabularies
    /\ tcall = TraitCall(trait_method, receiver.kind, caller_vocabulary,
                         Context_new(None), None, expansion_Options_default)
    /\ trait_log = <<>>

TraitIdle ==
    /\ receiver = [kind |-> "Value", url |-> None, document |-> Leaf("null")]
    /\ trait_method = None
    /\ caller_vocabulary = NoVocabulary
    /\ tcall = NoTraitCall
    /\ trait_log = <<>>

TraitStep(next) ==
    /\ tcall' = next
    /\ trait_log' = Append(trait_log, next)
    /\ UNCHANGED <<receiver, trait_method, caller_vocabulary>>
    /\ UNCHANGED otherThanTrait

ExpandCallsExpandWith ==
    /\ tcall.fn = "expand"
    /\ TraitStep(Expand_expand(receiver))

ExpandWithCallsExpandFull ==
    /\ tcall.fn = "expand_with"
    /\ TraitStep(Expand_expand_with(receiver, tcall.vocabulary))

RemoteDocumentExpandFull ==
    /\ tcall.fn = "expand_full"
    /\ tcall.on = "RemoteDocument"
    /\ TraitStep(RemoteDocument_expand_full(tcall))

ValueExpandFull ==
    /\ tcall.fn = "expand_full"
    /\ tcall.on = "Value"
    /\ TraitStep(Value_expand_full(tcall))

(***************************************************************************)
(* The methods of Options (src/processor/mod.rs 86-138).                   *)
(***************************************************************************)
\* Every value of the struct: its fields are public.
AllOptions ==
    [base : {None, BaseOption},
     compact_arrays : BOOLEAN,
     compact_to_relative : BOOLEAN,
     expand_context : {None, ExpandContextUrl, LinkUrl},
     ordered : BOOLEAN,
     processing_mode : {"JsonLd1_0", "JsonLd1_1"},
     rdf_direction : {None, "I18nDatatype", "CompoundLiteral"},
     produce_generalized_rdf : BOOLEAN,
     expansion_policy : {"default", "strict"}]

OptionsCall(method, context) == [method |-> method, context |-> context]

OptionsInit ==
    /\ options_self \in AllOptions
    /\ options_call = OptionsCall("literal", None)
    /\ options_result = options_self

OptionsIdle ==
    /\ options_self = Options_default
    /\ options_call = OptionsCall("idle", None)
    /\ options_result = Options_default

\* Options::default() (mod.rs 124-138).
OptionsDefault ==
    /\ options_call.method # "default"
    /\ options_self' = options_result
    /\ options_call' = OptionsCall("default", None)
    /\ options_result' = Options_default
    /\ UNCHANGED otherThanOptions

\* options.unordered() (mod.rs 89-94), on the options made last.
OptionsUnordered ==
    /\ options_self' = options_result
    /\ options_call' = OptionsCall("unordered", None)
    /\ options_result' = Options_unordered(options_result)
    /\ UNCHANGED otherThanOptions

\* options.with_expand_context(context) (mod.rs 98-103), on the options made
\* last.
OptionsWithExpandContext ==
    \E context \in {ExpandContextUrl, LinkUrl} :
        /\ options_self' = options_result
        /\ options_call' = OptionsCall("with_expand_context", context)
        /\ options_result' = Options_with_expand_context(options_result, context)
        /\ UNCHANGED otherThanOptions

(***************************************************************************)
(* SccGraph::strongly_connected_components and strong_connect              *)
(* (static-regular-grammar/src/utils/scc.rs).                              *)
(***************************************************************************)
\* Number of vertices and of edges of a graph.
MaxVertices == 3
MaxEdges == 3

Vertex == 1..MaxVertices

EdgesOf(succ) == {e \in Vertex \X Vertex : e[2] \in succ[e[1]]}

\* An implementation of SccGraph: vertices() need not list every vertex.  The
\* vertices are iterated in any order, so they are interchangeable and
\* vertices() is taken to yield the first k of them.
SccGraphs ==
    {[vertices |-> r, succ |-> s] :
        r \in {1..k : k \in 0..MaxVertices},
        s \in {f \in [Vertex -> SUBSET Vertex] : Cardinality(EdgesOf(f)) <= MaxEdges}}

\* struct Data (scc.rs 7-12); `visited` says that the map has the vertex.
Data(index, lowlink, on_stack, component) ==
    [visited |-> TRUE, index |-> index, lowlink |-> lowlink, on_stack |-> on_stack,
     component |-> component]
NoData ==
    [visited |-> FALSE, index |-> 0, lowlink |-> 0, on_stack |-> FALSE, component |-> 0]

Visited(map) == {v \in Vertex : map[v].visited}

Min(a, b) == IF a <= b THEN a ELSE b

SccSome(x) == [some |-> TRUE, value |-> x]
SccNone == [some |-> FALSE, value |-> 0]

\* scc.rs 120: the lowlink of v after the call on an unvisited successor.
lowlink_after_call(map, v, w_lowlink) == Min(map[v].lowlink, w_lowlink)

\* Mutant of scc.rs 123-128: a successor on the stack is ignored.
lowlink_on_stack_ignored(map, v, w) == map[v].lowlink
\* scc.rs 123-128: the lowlink of v after a successor w that is on the stack.
lowlink_on_stack(map, v, w) == Min(map[v].lowlink, map[w].index)

\* scc.rs 145-157: pop the stack down to v; `unwrap` panics on an empty stack.
RECURSIVE pop_component(_, _, _)
pop_component(st, v, component) ==
    IF st = <<>> THEN [panic |-> TRUE, component |-> component, stack |-> st]
    ELSE LET w == st[Len(st)]
             rest == SubSeq(st, 1, Len(st) - 1)
         IN IF w = v
            THEN [panic |-> FALSE, component |-> Append(component, w), stack |-> rest]
            ELSE pop_component(rest, v, Append(component, w))

SeqRange(q) == {q[k] : k \in 1..Len(q)}

\* Mutant of scc.rs 46-58: the component itself is left out of its successors.
component_successors_without_self(graph, map, component) ==
    {map[sc].component : sc \in UNION {graph.succ[v] : v \in SeqRange(component)}}
        \ {map[component[1]].component}
\* scc.rs 46-58: the components of the successors of the members.
component_successors(graph, map, component) ==
    {map[sc].component : sc \in UNION {graph.succ[v] : v \in SeqRange(component)}}

\* scc.rs 41-64: the Components built from the map and the components.
Components(graph, map, components) ==
    [vertex_to_component |-> [v \in Visited(map) |-> map[v].component],
     components |-> components,
     successors |->
        [k \in 1..Len(components) |-> component_successors(graph, map, components[k])]]

NoComponents == [vertex_to_component |-> <<>>, components |-> <<>>, successors |-> <<>>]

\* Components::len, vertex_component, get, successors (scc.rs 74-92); component
\* indices start at 0.
Components_len(c) == Len(c.components)
Components_vertex_component(c, v) ==
    IF v \in DOMAIN c.vertex_to_component THEN SccSome(c.vertex_to_component[v])
    ELSE SccNone
Components_get(c, i) ==
    IF i < Len(c.components) THEN SccSome(c.components[i + 1]) ELSE SccNone
Components_successors(c, i) ==
    IF i < Len(c.successors) THEN SccSome(c.successors[i + 1]) ELSE SccNone

SccFrame(graph, v) == [v |-> v, todo |-> graph.succ[v]]

SccInit ==
    /\ scc_graph \in SccGraphs
    /\ scc_todo = scc_graph.vertices
    /\ scc_map = [v \in Vertex |-> NoData]
    /\ scc_stack = <<>>
    /\ scc_components = <<>>
    /\ scc_calls = <<>>
    /\ scc_pc = "run"
    /\ scc_result = NoComponents

SccIdle ==
    /\ scc_graph = [vertices |-> {}, succ |-> [v \in Vertex |-> {}]]
    /\ scc_todo = {}
    /\ scc_map = [v \in Vertex |-> NoData]
    /\ scc_stack = <<>>
    /\ scc_components = <<>>
    /\ scc_calls = <<>>
    /\ scc_pc = "idle"
    /\ scc_result = NoComponents

\* scc.rs 102-113: the entry of strong_connect(graph, v, ...).
strong_connect_enter(v, calls) ==
    LET index == Cardinality(Visited(scc_map))
    IN /\ scc_stack' = Append(scc_stack, v)
       /\ scc_map' = [scc_map EXCEPT ![v] = Data(index, index, TRUE, 0)]
       /\ scc_calls' = Append(calls, SccFrame(scc_graph, v))

SccTop == scc_calls[Len(scc_calls)]
SccWithoutSuccessor(w) ==
    [scc_calls EXCEPT ![Len(scc_calls)].todo = @ \ {w}]

\* scc.rs 35-39: a vertex of vertices() that the map does not have.
SccVisitVertex ==
    /\ scc_pc = "run"
    /\ scc_calls = <<>>
    /\ \E v \in scc_todo :
        /\ ~scc_map[v].visited
        /\ scc_todo' = scc_todo \ {v}
        /\ strong_connect_enter(v, scc_calls)
    /\ UNCHANGED <<scc_graph, scc_components, scc_pc, scc_result>>
    /\ UNCHANGED otherThanScc

\* scc.rs 35-36: a vertex of vertices() that the map has already.
SccSkipVertex ==
    /\ scc_pc = "run"
    /\ scc_calls = <<>>
    /\ \E v \in scc_todo :
        /\ scc_map[v].visited
        /\ scc_todo' = scc_todo \ {v}
    /\ UNCHANGED <<scc_graph, scc_map, scc_stack, scc_components, scc_calls, scc_pc,
                   scc_result>>
    /\ UNCHANGED otherThanScc

\* scc.rs 116-121: a successor not yet visited; recurse on it.
SccRecurse ==
    /\ scc_pc = "run"
    /\ scc_calls # <<>>
    /\ \E w \in SccTop.todo :
        /\ ~scc_map[w].visited
        /\ strong_connect_enter(w, SccWithoutSuccessor(w))
    /\ UNCHANGED <<scc_graph, scc_todo, scc_components, scc_pc, scc_result>>
    /\ UNCHANGED otherThanScc

\* scc.rs 122-128, 135-137: a successor that is on the stack.
SccSuccessorOnStack ==
    /\ scc_pc = "run"
    /\ scc_calls # <<>>
    /\ \E w \in SccTop.todo :
        /\ scc_map[w].visited
        /\ scc_map[w].on_stack
        /\ scc_map' = [scc_map EXCEPT
                ![SccTop.v].lowlink = lowlink_on_stack(scc_map, SccTop.v, w)]
        /\ scc_calls' = SccWithoutSuccessor(w)
    /\ UNCHANGED <<scc_graph, scc_todo, scc_stack, scc_components, scc_pc, scc_result>>
    /\ UNCHANGED otherThanScc

\* scc.rs 129-131: a successor of a component already found.
SccSuccessorFound ==
    /\ scc_pc = "run"
    /\ scc_calls # <<>>
    /\ \E w \in SccTop.todo :
        /\ scc_map[w].visited
        /\ ~scc_map[w].on_stack
        /\ scc_calls' = SccWithoutSuccessor(w)
    /\ UNCHANGED <<scc_graph, scc_todo, scc_map, scc_stack, scc_components, scc_pc,
                   scc_result>>
    /\ UNCHANGED otherThanScc

\* scc.rs 120, 135-137: the caller of a returning strong_connect takes the
\* lowlink returned.
SccReturnTo(map, lowlink) ==
    IF Len(scc_calls) > 1
    THEN LET p == scc_calls[Len(scc_calls) - 1].v
         IN [map EXCEPT ![p].lowlink = lowlink_after_call(map, p, lowlink)]
    ELSE map

\* scc.rs 140-165: v is a root; pop the stack and generate a component.
SccReturnComponent ==
    /\ scc_pc = "run"
    /\ scc_calls # <<>>
    /\ SccTop.todo = {}
    /\ scc_map[SccTop.v].lowlink = scc_map[SccTop.v].index
    /\ LET v == SccTop.v
           popped == pop_component(scc_stack, v, <<>>)
           map == [w \in Vertex |->
                    IF w \in SeqRange(popped.component)
                    THEN [scc_map[w] EXCEPT !.on_stack = FALSE,
                                            !.component = Len(scc_components)]
                    ELSE scc_map[w]]
       IN /\ scc_pc' = IF popped.panic THEN "panicked" ELSE "run"
          /\ scc_stack' = popped.stack
          /\ scc_components' = Append(scc_components, popped.component)
          /\ scc_map' = SccReturnTo(map, scc_map[v].lowlink)
          /\ scc_calls' = SubSeq(scc_calls, 1, Len(scc_calls) - 1)
    /\ UNCHANGED <<scc_graph, scc_todo, scc_result>>
    /\ UNCHANGED otherThanScc

\* scc.rs 140-142, 165: v is not a root; its lowlink is returned.
SccReturnLowlink ==
    /\ scc_pc = "run"
    /\ scc_calls # <<>>
    /\ SccTop.todo = {}
    /\ scc_map[SccTop.v].lowlink # scc_map[SccTop.v].index
    /\ scc_map' = SccReturnTo(scc_map, scc_map[SccTop.v].lowlink)
    /\ scc_calls' = SubSeq(scc_calls, 1, Len(scc_calls) - 1)
    /\ UNCHANGED <<scc_graph, scc_todo, scc_stack, scc_components, scc_pc, scc_result>>
    /\ UNCHANGED otherThanScc

\* scc.rs 41-64: the Components are built; `unwrap` panics on a successor
\* that the map does not have.
SccFinish ==
    /\ scc_pc = "run"
    /\ scc_calls = <<>>
    /\ scc_todo = {}
    /\ LET missing ==
            \E k \in 1..Len(scc_components) :
                \E v \in SeqRange(scc_components[k]) :
                    \E sc \in scc_graph.succ[v] : ~scc_map[sc].visited
       IN IF missing
          THEN scc_pc' = "panicked" /\ scc_result' = scc_result
          ELSE /\ scc_pc' = "done"
               /\ scc_result' = Components(scc_graph, scc_map, scc_components)
    /\ UNCHANGED <<scc_graph, scc_todo, scc_map, scc_stack, scc_components, scc_calls>>
    /\ UNCHANGED otherThanScc

(***************************************************************************)
(* Decimal numbers (xsd-types/src/value/decimal/mod.rs).                   *)
(***************************************************************************)
\* Largest numerator and denominator of a rational given to the functions,
\* and largest number of digits on each side of the point of a lexical form.
MaxNumer == 25
MaxDenom == 20
MaxDigits == 2

Abs(n) == IF n < 0 THEN -n ELSE n

RECURSIVE GCD(_, _)
GCD(a, b) == IF b = 0 THEN a ELSE GCD(b, a % b)

\* BigRational: numer / denom in lowest terms, denom > 0.
Ratio(n, d) == [numer |-> n, denom |-> d]
BigRational_new(n, d) == Ratio(n \div GCD(Abs(n), d), d \div GCD(Abs(n), d))
BigRational_from(n) == Ratio(n, 1)
BigRational_add(a, b) ==
    BigRational_new(a.numer * b.denom + b.numer * a.denom, a.denom * b.denom)
BigRational_zero == Ratio(0, 1)
BigRational_is_negative(r) == r.numer < 0

BigRationals ==
    {Ratio(n, d) : n \in (-MaxNumer)..MaxNumer, d \in 1..MaxDenom}
        \cap {BigRational_new(n, d) : n \in (-MaxNumer)..MaxNumer, d \in 1..MaxDenom}

\* BigInt division, which truncates towards zero (d > 0).
BigInt_div(n, d) == IF n < 0 THEN -((-n) \div d) ELSE n \div d

\* Strings are sequences of characters.
DigitChars == <<"0", "1", "2", "3", "4", "5", "6", "7", "8", "9">>
DigitValue(ch) == (CHOOSE k \in 1..10 : DigitChars[k] = ch) - 1

RECURSIVE NatToString(_)
NatToString(n) ==
    IF n < 10 THEN <<DigitChars[n + 1]>>
    ELSE NatToString(n \div 10) \o <<DigitChars[(n % 10) + 1]>>

\* BigInt::to_string.
BigInt_to_string(n) == IF n < 0 THEN <<"-">> \o NatToString(-n) ELSE NatToString(n)

RECURSIVE DigitsValue(_)
DigitsValue(q) ==
    IF q = <<>> THEN 0
    ELSE 10 * DigitsValue(SubSeq(q, 1, Len(q) - 1)) + DigitValue(q[Len(q)])

\* str::parse::<BigInt>: an optional sign, then digits.
BigInt_parse(q) ==
    IF q # <<>> /\ q[1] = "-" THEN -DigitsValue(Tail(q))
    ELSE IF q # <<>> /\ q[1] = "+" THEN DigitsValue(Tail(q))
    ELSE DigitsValue(q)

\* The lexical forms given to the conversions: an optional sign, digits, and
\* optionally a point and digits.
DigitStrings(alphabet) ==
    UNION {[1..n -> alphabet] : n \in 1..MaxDigits}
LexicalForm(sign, int, fract) ==
    [sign |-> sign, int |-> int, fract |-> fract]
LexicalForms ==
    {LexicalForm(s, i, f) :
        s \in {<<>>, <<"-">>, <<"+">>},
        i \in DigitStrings({"0", "1", "5"}),
        f \in {<<>>} \cup DigitStrings({"0", "5"})}

\* lexical::Decimal::integer_part: what is before the point, sign included;
\* fractional_part: the digits after the point, if there is a point.
Decimal_integer_part(text) == text.sign \o text.int
Decimal_has_fractional_part(text) == text.fract # <<>>
Decimal_fractional_part(text) == text.fract
LexicalString(text) ==
    text.sign \o text.int
        \o (IF text.fract = <<>> THEN <<>> ELSE <<".">> \o text.fract)

RECURSIVE Pow10(_)
Pow10(k) == IF k = 0 THEN 1 ELSE 10 * Pow10(k - 1)

\* mod.rs 97-103, 136-142: `rem` before the loop.
initial_rem(r) ==
    (IF BigRational_is_negative(r) THEN -r.numer ELSE r.numer) % r.denom

\* mod.rs 104, 143: the condition of the loop.
loop_condition(rem, seen) == rem # 0 /\ rem \notin seen

\* mod.rs 106, 146-148: `rem` after one turn of the loop.
next_rem(rem, r) == (rem * 10) % r.denom

\* Mutant of mod.rs 109: is_decimal answers true for every rational.
is_decimal_result_always(rem) == TRUE
\* mod.rs 109: what is_decimal returns.
is_decimal_result(rem) == rem = 0

\* mod.rs 152-168: what decimal_lexical_representation returns.
lexical_output(r, rem, fraction) ==
    LET output ==
            (IF BigRational_is_negative(r) THEN <<"-">> ELSE <<>>)
                \o BigInt_to_string(BigInt_div(r.numer, r.denom))
    IN IF rem = 0
       THEN [called |-> TRUE, some |-> TRUE,
             value |-> IF fraction # <<>> THEN output \o <<".">> \o fraction
                       ELSE output]
       ELSE [called |-> TRUE, some |-> FALSE, value |-> <<>>]

\* mod.rs 304-320: the rational made of a lexical form.
Decimal_from_lexical(text) ==
    LET integer_part == BigInt_parse(Decimal_integer_part(text))
    IN IF Decimal_has_fractional_part(text)
       THEN LET fract == Decimal_fractional_part(text)
                numer == BigInt_parse(fract)
                denom == Pow10(Len(fract))
            IN BigRational_add(BigRational_from(integer_part),
                               BigRational_new(numer, denom))
       ELSE BigRational_from(integer_part)

NotCalled == [called |-> FALSE, value |-> FALSE]
NoLexical == [called |-> FALSE, some |-> FALSE, value |-> <<>>]
NoTryFrom == [called |-> FALSE, ok |-> FALSE, data |-> BigRational_zero]
NoCached == [called |-> FALSE, panic |-> FALSE, value |-> <<>>]
NoFrom == [called |-> FALSE, data |-> BigRational_zero]
NoText == LexicalForm(<<>>, <<"0">>, <<>>)

DecimalInit ==
    /\ \/ /\ dec_r \in BigRationals
          /\ dec_text = NoText
          /\ dec_phase = "is_decimal"
       \/ /\ dec_r = BigRational_zero
          /\ dec_text \in LexicalForms
          /\ dec_phase \in {"from", "from_str"}
    /\ dec_pc = "entry"
    /\ dec_rem = 0
    /\ dec_seen = {}
    /\ dec_fraction = <<>>
    /\ dec_is_decimal = NotCalled
    /\ dec_lexical = NoLexical
    /\ dec_try_from = NoTryFrom
    /\ dec_cached = NoCached
    /\ dec_from = NoFrom

DecimalIdle ==
    /\ dec_r = BigRational_zero
    /\ dec_text = NoText
    /\ dec_phase = "idle"
    /\ dec_pc = "entry"
    /\ dec_rem = 0
    /\ dec_seen = {}
    /\ dec_fraction = <<>>
    /\ dec_is_decimal = NotCalled
    /\ dec_lexical = NoLexical
    /\ dec_try_from = NoTryFrom
    /\ dec_cached = NoCached
    /\ dec_from = NoFrom

decInputs == <<dec_r, dec_text>>
decResults == <<dec_is_decimal, dec_lexical, dec_try_from, dec_cached, dec_from>>

\* mod.rs 94-103: is_decimal(r) is entered, called directly or by try_from
\* (mod.rs 477).
IsDecimalEntry ==
    /\ dec_phase \in {"is_decimal", "try_from"}
    /\ dec_pc = "entry"
    /\ dec_seen' = {}
    /\ dec_rem' = initial_rem(dec_r)
    /\ dec_pc' = "loop"
    /\ UNCHANGED <<decInputs, decResults, dec_phase, dec_fraction>>
    /\ UNCHANGED otherThanDecimal

\* mod.rs 104-107: one turn of the loop of is_decimal.
IsDecimalLoop ==
    /\ dec_phase \in {"is_decimal", "try_from"}
    /\ dec_pc = "loop"
    /\ loop_condition(dec_rem, dec_seen)
    /\ dec_seen' = dec_seen \cup {dec_rem}
    /\ dec_rem' = next_rem(dec_rem, dec_r)
    /\ UNCHANGED <<decInputs, decResults, dec_phase, dec_pc, dec_fraction>>
    /\ UNCHANGED otherThanDecimal

\* mod.rs 109: is_decimal returns to the caller.
IsDecimalReturn ==
    /\ dec_phase = "is_decimal"
    /\ dec_pc = "loop"
    /\ ~loop_condition(dec_rem, dec_seen)
    /\ dec_is_decimal' = [called |-> TRUE, value |-> is_decimal_result(dec_rem)]
    /\ dec_phase' = "decimal_lexical_representation"
    /\ dec_pc' = "entry"
    /\ UNCHANGED <<decInputs, dec_rem, dec_seen, dec_fraction, dec_lexical, dec_try_from,
                   dec_cached, dec_from>>
    /\ UNCHANGED otherThanDecimal

\* mod.rs 133-142: decimal_lexical_representation(r) is entered, called
\* directly or by Decimal::lexical_representation (mod.rs 270).
LexicalEntry ==
    /\ dec_phase \in {"decimal_lexical_representation", "lexical_representation"}
    /\ dec_pc = "entry"
    /\ dec_fraction' = <<>>
    /\ dec_seen' = {}
    /\ dec_rem' = initial_rem(dec_r)
    /\ dec_pc' = "loop"
    /\ UNCHANGED <<decInputs, decResults, dec_phase>>
    /\ UNCHANGED otherThanDecimal

\* mod.rs 143-150: one turn of the loop of decimal_lexical_representation.
LexicalLoop ==
    /\ dec_phase \in {"decimal_lexical_representation", "lexical_representation"}
    /\ dec_pc = "loop"
    /\ loop_condition(dec_rem, dec_seen)
    /\ dec_seen' = dec_seen \cup {dec_rem}
    /\ dec_fraction' =
            dec_fraction \o BigInt_to_string(BigInt_div(dec_rem * 10, dec_r.denom))
    /\ dec_rem' = next_rem(dec_rem, dec_r)
    /\ UNCHANGED <<decInputs, decResults, dec_phase, dec_pc>>
    /\ UNCHANGED otherThanDecimal

\* mod.rs 152-168: decimal_lexical_representation returns to the caller.
LexicalReturn ==
    /\ dec_phase = "decimal_lexical_representation"
    /\ dec_pc = "loop"
    /\ ~loop_condition(dec_rem, dec_seen)
    /\ dec_lexical' = lexical_output(dec_r, dec_rem, dec_fraction)
    /\ dec_phase' = "try_from"
    /\ dec_pc' = "entry"
    /\ UNCHANGED <<decInputs, dec_rem, dec_seen, dec_fraction, dec_is_decimal,
                   dec_try_from, dec_cached, dec_from>>
    /\ UNCHANGED otherThanDecimal

\* mod.rs 476-482: try_from returns the Decimal or NoDecimalRepresentation.
TryFromReturn ==
    /\ dec_phase = "try_from"
    /\ dec_pc = "loop"
    /\ ~loop_condition(dec_rem, dec_seen)
    /\ dec_try_from' =
            [called |-> TRUE, ok |-> is_decimal_result(dec_rem), data |-> dec_r]
    /\ dec_phase' =
            IF is_decimal_result(dec_rem) THEN "lexical_representation" ELSE "done"
    /\ dec_pc' = "entry"
    /\ UNCHANGED <<decInputs, dec_rem, dec_seen, dec_fraction, dec_is_decimal,
                   dec_lexical, dec_cached, dec_from>>
    /\ UNCHANGED otherThanDecimal

\* mod.rs 267-271: lexical_representation() of the Decimal made by try_from
\* unwraps what decimal_lexical_representation returns.
LexicalRepresentationReturn ==
    /\ dec_phase = "lexical_representation"
    /\ dec_pc = "loop"
    /\ ~loop_condition(dec_rem, dec_seen)
    /\ LET repr == lexical_output(dec_try_from.data, dec_rem, dec_fraction)
       IN dec_cached' = [called |-> TRUE, panic |-> ~repr.some, value |-> repr.value]
    /\ dec_phase' = "done"
    /\ dec_pc' = "entry"
    /\ UNCHANGED <<decInputs, dec_rem, dec_seen, dec_fraction, dec_is_decimal,
                   dec_lexical, dec_try_from, dec_from>>
    /\ UNCHANGED otherThanDecimal

\* mod.rs 304-326: From<DecimalBuf> for Decimal.
FromDecimalBuf ==
    /\ dec_phase = "from"
    /\ dec_from' = [called |-> TRUE, data |-> Decimal_from_lexical(dec_text)]
    /\ dec_phase' = "done"
    /\ UNCHANGED <<decInputs, dec_pc, dec_rem, dec_seen, dec_fraction, dec_is_decimal,
                   dec_lexical, dec_try_from, dec_cached>>
    /\ UNCHANGED otherThanDecimal

\* mod.rs 328-336: FromStr for Decimal, on a valid string: the DecimalBuf
\* made of the string is converted.
FromStr ==
    /\ dec_phase = "from_str"
    /\ dec_from' = [called |-> TRUE, data |-> Decimal_from_lexical(dec_text)]
    /\ dec_phase' = "done"
    /\ UNCHANGED <<decInputs, dec_pc, dec_rem, dec_seen, dec_fraction, dec_is_decimal,
                   dec_lexical, dec_try_from, dec_cached>>
    /\ UNCHANGED otherThanDecimal

(***************************************************************************)
(* The to_rdf methods of JsonLdProcessor (src/processor/mod.rs 573-886).   *)
(***************************************************************************)
ToRdfMethods ==
    {"to_rdf_full", "to_rdf_with_using", "to_rdf_using", "to_rdf_with", "to_rdf"}
ToRdfMethodsWithOptions == {"to_rdf_full", "to_rdf_with_using", "to_rdf_using"}

ToRdfCall(method, v, o) == [method |-> method, vocabulary |-> v, options |-> o]
NoExpansion ==
    [called |-> FALSE, options |-> Options_default,
     expansion_options |-> expansion_options(Options_default),
     context_processing_options |-> context_processing_options(Options_default)]
RdfSettings(called, direction, generalized) ==
    [called |-> called, rdf_direction |-> direction,
     produce_generalized_rdf |-> generalized]
NoRdfSettings == RdfSettings(FALSE, None, FALSE)

ToRdfInit ==
    /\ to_rdf_method \in ToRdfMethods
    /\ to_rdf_given \in
            IF to_rdf_method \in ToRdfMethodsWithOptions THEN AllOptions
            ELSE {Options_default}
    /\ to_rdf_call = ToRdfCall(to_rdf_method,
                               IF to_rdf_method \in {"to_rdf_using", "to_rdf"}
                               THEN NoVocabulary ELSE "vocabulary",
                               to_rdf_given)
    /\ to_rdf_expansion = NoExpansion
    /\ to_rdf_value = NoRdfSettings
    /\ to_rdf_quads = NoRdfSettings

ToRdfIdle ==
    /\ to_rdf_method = None
    /\ to_rdf_given = Options_default
    /\ to_rdf_call = ToRdfCall("idle", NoVocabulary, Options_default)
    /\ to_rdf_expansion = NoExpansion
    /\ to_rdf_value = NoRdfSettings
    /\ to_rdf_quads = NoRdfSettings

\* mod.rs 876-886: to_rdf calls to_rdf_using with the default options.
ToRdfCallsUsing ==
    /\ to_rdf_call.method = "to_rdf"
    /\ to_rdf_call' = ToRdfCall("to_rdf_using", NoVocabulary, Options_default)
    /\ UNCHANGED <<to_rdf_method, to_rdf_given, to_rdf_expansion, to_rdf_value,
                   to_rdf_quads>>
    /\ UNCHANGED otherThanToRdf

\* mod.rs 800-818: to_rdf_using calls to_rdf_with_using without vocabulary.
ToRdfUsingCallsWithUsing ==
    /\ to_rdf_call.method = "to_rdf_using"
    /\ to_rdf_call' = ToRdfCall("to_rdf_with_using", NoVocabulary, to_rdf_call.options)
    /\ UNCHANGED <<to_rdf_method, to_rdf_given, to_rdf_expansion, to_rdf_value,
                   to_rdf_quads>>
    /\ UNCHANGED otherThanToRdf

\* mod.rs 729-741: to_rdf_with calls to_rdf_full with the default options.
ToRdfWithCallsFull ==
    /\ to_rdf_call.method = "to_rdf_with"
    /\ to_rdf_call' = ToRdfCall("to_rdf_full", to_rdf_call.vocabulary, Options_default)
    /\ UNCHANGED <<to_rdf_method, to_rdf_given, to_rdf_expansion, to_rdf_value,
                   to_rdf_quads>>
    /\ UNCHANGED otherThanToRdf

\* mod.rs 658-671: to_rdf_with_using calls to_rdf_full.
ToRdfWithUsingCallsFull ==
    /\ to_rdf_call.method = "to_rdf_with_using"
    /\ to_rdf_call' = ToRdfCall("to_rdf_full", to_rdf_call.vocabulary,
                                to_rdf_call.options)
    /\ UNCHANGED <<to_rdf_method, to_rdf_given, to_rdf_expansion, to_rdf_value,
                   to_rdf_quads>>
    /\ UNCHANGED otherThanToRdf

\* mod.rs 587-600: to_rdf_full keeps rdf_direction and
\* produce_generalized_rdf, expands with options.unordered(), and on success
\* returns ToRdf::new(.., rdf_direction, produce_generalized_rdf).  expand_full
\* derives the options of the two algorithms (remote_document.rs 38, 56, 69).
ToRdfFull ==
    /\ to_rdf_call.method = "to_rdf_full"
    /\ LET o == to_rdf_call.options
           rdf_direction == o.rdf_direction
           produce_generalized_rdf == o.produce_generalized_rdf
           handed == to_rdf_full_options(o)
       IN /\ to_rdf_expansion' =
                [called |-> TRUE, options |-> handed,
                 expansion_options |-> expansion_options(handed),
                 context_processing_options |-> context_processing_options(handed)]
          /\ \E status \in ExpansionErrors \cup {Success} :
                IF status = Success
                THEN /\ to_rdf_value' =
                            RdfSettings(TRUE, rdf_direction, produce_generalized_rdf)
                     /\ to_rdf_call' = [to_rdf_call EXCEPT !.method = "returned"]
                ELSE /\ to_rdf_value' = to_rdf_value
                     /\ to_rdf_call' = [to_rdf_call EXCEPT !.method = "failed"]
    /\ UNCHANGED <<to_rdf_method, to_rdf_given, to_rdf_quads>>
    /\ UNCHANGED otherThanToRdf

\* mod.rs 920-927: ToRdf::quads.
ToRdfQuads ==
    /\ to_rdf_call.method = "returned"
    /\ to_rdf_quads' = RdfSettings(TRUE, to_rdf_value.rdf_direction,
                                   to_rdf_value.produce_generalized_rdf)
    /\ to_rdf_call' = [to_rdf_call EXCEPT !.method = "quads"]
    /\ UNCHANGED <<to_rdf_method, to_rdf_given, to_rdf_expansion, to_rdf_value>>
    /\ UNCHANGED otherThanToRdf

(***************************************************************************)
(* Specifications.                                                         *)
(***************************************************************************)
ExpansionNext ==
    \/ DocumentExpand
    \/ ExpandArrayItem
    \/ ExpandArrayReturn
    \/ DocumentFinish

\* The expansion of a document: document::expand and the recursion.
Init == ExpansionInit /\ ProcIdle /\ WarnIdle /\ RdfIdle /\ CtxIdle /\ CodeIdle /\ LoaderIdle
    /\ TraitIdle /\ ToRdfIdle /\ DecimalIdle /\ SccIdle /\ OptionsIdle

Spec == Init /\ [][ExpansionNext]_vars

ProcNext ==
    \/ Enter
    \/ LoadDocument
    \/ NewContext
    \/ LoadExpandContext
    \/ ProcessExpandContext
    \/ LoadContextLink
    \/ ProcessContextLink
    \/ Expand
    \/ ToRdfNew

\* The facade: expand_full and to_rdf_full.
ProcSpecInit == ProcInit /\ ExpansionIdle /\ WarnIdle /\ RdfIdle /\ CtxIdle /\ CodeIdle /\ LoaderIdle
    /\ TraitIdle /\ ToRdfIdle /\ DecimalIdle /\ SccIdle /\ OptionsIdle

ProcSpec == ProcSpecInit /\ [][ProcNext]_vars

WarnNext ==
    \/ EmitWarning
    \/ EndOfProcessing

WarnSpecInit == WarnInit /\ ExpansionIdle /\ ProcIdle /\ RdfIdle /\ CtxIdle /\ CodeIdle /\ LoaderIdle
    /\ TraitIdle /\ ToRdfIdle /\ DecimalIdle /\ SccIdle /\ OptionsIdle

\* A run of code that emits warnings to a handler.
WarnSpec == WarnSpecInit /\ [][WarnNext]_vars

\* The facade, with a caller that may drop the future of the method.
CancelNext == ProcNext \/ Drop

CancelSpec == ProcSpecInit /\ [][CancelNext]_vars

\* The expansion of a document, or a call of the facade.
FrameSpecInit == Init \/ ProcSpecInit

FrameSpec == FrameSpecInit /\ [][ExpansionNext \/ ProcNext]_vars

CtxNext ==
    \/ ProcessLocalContext
    \/ ContextsDone

CtxSpecInit == CtxInit /\ ExpansionIdle /\ ProcIdle /\ WarnIdle /\ RdfIdle /\ CodeIdle /\ LoaderIdle
    /\ TraitIdle /\ ToRdfIdle /\ DecimalIdle /\ SccIdle /\ OptionsIdle

\* The processing of a sequence of nested local contexts.
CtxSpec == CtxSpecInit /\ [][CtxNext]_vars

CodeNext ==
    \/ WrapInExpandError
    \/ WrapInCompactError
    \/ WrapInFlattenError
    \/ WrapInToRdfError
    \/ TakeCode

CodeSpecInit ==
    CodeInit /\ ExpansionIdle /\ ProcIdle /\ WarnIdle /\ RdfIdle /\ CtxIdle /\ LoaderIdle /\ TraitIdle /\ ToRdfIdle /\ DecimalIdle /\ SccIdle /\ OptionsIdle

\* The errors of the facade and their codes.
CodeSpec == CodeSpecInit /\ [][CodeNext]_vars

LoaderNext ==
    \/ ChainLoadFirst
    \/ NoLoaderLoad
    \/ MapLoad
    \/ ChainAfterFirst
    \/ ChainAfterSecond
    \/ LoadReturn

LoaderSpecInit ==
    /\ LoaderInit
    /\ ExpansionIdle /\ ProcIdle /\ WarnIdle /\ RdfIdle /\ CtxIdle /\ CodeIdle /\ TraitIdle /\ ToRdfIdle /\ DecimalIdle /\ SccIdle /\ OptionsIdle

\* One call of `load` on a loader.
LoaderSpec == LoaderSpecInit /\ [][LoaderNext]_vars

TraitNext ==
    \/ ExpandCallsExpandWith
    \/ ExpandWithCallsExpandFull
    \/ RemoteDocumentExpandFull
    \/ ValueExpandFull

TraitSpecInit ==
    /\ TraitInit
    /\ ExpansionIdle /\ ProcIdle /\ WarnIdle /\ RdfIdle /\ CtxIdle /\ CodeIdle
    /\ LoaderIdle /\ OptionsIdle /\ SccIdle /\ DecimalIdle /\ ToRdfIdle

\* One call of Expand::expand or Expand::expand_with.
TraitSpec == TraitSpecInit /\ [][TraitNext]_vars

OptionsNext ==
    \/ OptionsDefault
    \/ OptionsUnordered
    \/ OptionsWithExpandContext

OptionsSpecInit ==
    /\ OptionsInit
    /\ ExpansionIdle /\ ProcIdle /\ WarnIdle /\ RdfIdle /\ CtxIdle /\ CodeIdle
    /\ LoaderIdle /\ TraitIdle /\ ToRdfIdle /\ DecimalIdle /\ SccIdle

\* Options built by the caller and by the methods of Options.
OptionsSpec == OptionsSpecInit /\ [][OptionsNext]_vars

SccNext ==
    \/ SccVisitVertex
    \/ SccSkipVertex
    \/ SccRecurse
    \/ SccSuccessorOnStack
    \/ SccSuccessorFound
    \/ SccReturnComponent
    \/ SccReturnLowlink
    \/ SccFinish

SccSpecInit ==
    /\ SccInit
    /\ ExpansionIdle /\ ProcIdle /\ WarnIdle /\ RdfIdle /\ CtxIdle /\ CodeIdle
    /\ LoaderIdle /\ TraitIdle /\ ToRdfIdle /\ DecimalIdle /\ OptionsIdle

\* One call of strongly_connected_components.
SccSpec == SccSpecInit /\ [][SccNext]_vars

DecimalNext ==
    \/ IsDecimalEntry
    \/ IsDecimalLoop
    \/ IsDecimalReturn
    \/ LexicalEntry
    \/ LexicalLoop
    \/ LexicalReturn
    \/ TryFromReturn
    \/ LexicalRepresentationReturn
    \/ FromDecimalBuf
    \/ FromStr

DecimalSpecInit ==
    /\ DecimalInit
    /\ ExpansionIdle /\ ProcIdle /\ WarnIdle /\ RdfIdle /\ CtxIdle /\ CodeIdle
    /\ LoaderIdle /\ TraitIdle /\ ToRdfIdle /\ OptionsIdle /\ SccIdle

\* The functions on one rational, or the conversion of one lexical form.
DecimalSpec == DecimalSpecInit /\ [][DecimalNext]_vars

ToRdfNext ==
    \/ ToRdfCallsUsing
    \/ ToRdfUsingCallsWithUsing
    \/ ToRdfWithCallsFull
    \/ ToRdfWithUsingCallsFull
    \/ ToRdfFull
    \/ ToRdfQuads

ToRdfSpecInit ==
    /\ ToRdfInit
    /\ ExpansionIdle /\ ProcIdle /\ WarnIdle /\ RdfIdle /\ CtxIdle /\ CodeIdle
    /\ LoaderIdle /\ TraitIdle /\ OptionsIdle /\ SccIdle /\ DecimalIdle

\* One call of a to_rdf method, and quads() on what it returns.
ToRdfSpec == ToRdfSpecInit /\ [][ToRdfNext]_vars

RdfNext ==
    \/ RdfExpand
    \/ RdfNew
    \/ RdfQuads
    \/ RdfAgain

RdfSpecInit == RdfInit /\ ExpansionIdle /\ ProcIdle /\ WarnIdle /\ CtxIdle /\ CodeIdle /\ LoaderIdle
    /\ TraitIdle /\ ToRdfIdle /\ DecimalIdle /\ SccIdle /\ OptionsIdle

\* Two runs of expand_full or of to_rdf_full on the same input.
RdfSpec == RdfSpecInit /\ [][RdfNext]_vars

(***************************************************************************)
(* Reading the log.                                                        *)
(***************************************************************************)
EventsOf(f, kinds) == SelectSeq(log, LAMBDA e : e.frame = f /\ e.ev \in kinds)
Enters == {e \in Range(log) : e.ev = "enter"}
Dones == {e \in Range(log) : e.ev = "done"}
EnterOf(f) == CHOOSE e \in Enters : e.frame = f

RECURSIVE ConcatReturned(_)
\* The objects of a sequence of "ret" events, in order.
ConcatReturned(events) ==
    IF events = <<>> THEN <<>>
    ELSE events[1].res.val.objs \o ConcatReturned(Tail(events))

\* The items of the array of frame `f`, and what frame `f` has received.
ItemsOf(f) == EnterOf(f).args.element.items
ReturnedTo(f) == EventsOf(f, {"ret"})

\* Frame `f` received the expansion of each of its items once, in order.
ReceivedEveryItem(f) ==
    /\ Len(ReturnedTo(f)) = Len(ItemsOf(f))
    /\ \A k \in 1..Len(ReturnedTo(f)) : ReturnedTo(f)[k].idx = k

IsListFrame(f) == "List" \in EnterOf(f).def.container

(***************************************************************************)
(* C1.  List containment: when the definition of the active property has   *)
(* the List container, expand_array returns exactly one object, a List,     *)
(* whose items are the expansions of all the items of the array in input    *)
(* order (an empty List for an empty array); it never returns an array to   *)
(* be spliced into the parent.                                              *)
(***************************************************************************)
C1_ListContainment ==
    \A d \in Dones :
        (d.res.ok /\ IsListFrame(d.frame)) =>
            /\ d.res.val.tag = "Object"
            /\ Len(d.res.val.objs) = 1
            /\ d.res.val.objs[1].t = "list"
            /\ ReceivedEveryItem(d.frame)
            /\ d.res.val.objs[1].items = ConcatReturned(ReturnedTo(d.frame))

C1_Witness ==
    \E d \in Dones :
        /\ d.res.ok /\ IsListFrame(d.frame)
        /\ Len(ItemsOf(d.frame)) >= 2
        /\ Len(d.res.val.objs[1].items) >= 2
        /\ d.res.val.objs[1].items[1] # d.res.val.objs[1].items[2]

(***************************************************************************)
(* C2.  As claimed: after document::expand succeeds the document holds, at  *)
(* its top level, no bare Value object and no empty node object.            *)
(***************************************************************************)
C2_NoFreeFloatingItem ==
    pc = "done" => \A o \in result.objects : o.t # "value" /\ o # EmptyNode

\* The recursion returned one object, an unnamed graph.
SingleUnnamedGraph ==
    /\ expanded.ok
    /\ Len(expanded.val.objs) = 1
    /\ is_unnamed_graph(expanded.val.objs[1])

(***************************************************************************)
(* C2, amended.  After document::expand succeeds, unless the recursion      *)
(* returned a single unnamed graph, the document holds no Value object and  *)
(* holds every other object the recursion returned, an empty node object    *)
(* included: filter_top_level_item removes Value objects and nothing else.  *)
(***************************************************************************)
C2_OnlyValuesFiltered ==
    (pc = "done" /\ ~SingleUnnamedGraph) =>
        /\ \A o \in result.objects : o.t # "value"
        /\ \A o \in result.objects : o \in Range(expanded.val.objs)
        /\ \A o \in Range(expanded.val.objs) : o.t # "value" => o \in result.objects

C2_Witness ==
    /\ pc = "done" /\ ~SingleUnnamedGraph
    /\ \E o \in Range(expanded.val.objs) : o.t = "value"
    /\ EmptyNode \in Range(expanded.val.objs)
    /\ EmptyNode \in result.objects

(***************************************************************************)
(* C3.  Free-floating drop: expanding a document that is a bare string,     *)
(* number or boolean with an empty initial context does not fail, and the   *)
(* document returned holds no object.                                       *)
(***************************************************************************)
C3_ScalarDocumentIsEmpty ==
    (document.kind \in Scalars /\ active_context = EmptyContext) =>
        /\ pc # "error"
        /\ pc = "done" => result = DocOk({})

C3_Witness ==
    /\ document.kind \in Scalars /\ active_context = EmptyContext
    /\ pc = "done"
    /\ expanded.val.objs = <<ValueObject(document.kind)>>
    /\ result.ok /\ result.objects = {}

RECURSIVE HasListInList(_)
\* A List object that is a direct item of a List object, at any depth.
HasListInList(o) ==
    \/ o.t = "list" /\ \E k \in 1..Len(o.items) : o.items[k].t = "list"
    \/ \E k \in 1..Len(o.items) : HasListInList(o.items[k])

SameArguments(f) ==
    \A c \in Range(EventsOf(f, {"call"})) :
        c.args = [EnterOf(f).args EXCEPT !.element = ItemsOf(f)[c.idx]]

OneAfterTheOther(f) ==
    LET ev == EventsOf(f, {"call", "ret"})
    IN \A k \in 1..Len(ev) :
           /\ ev[k].ev = IF k % 2 = 1 THEN "call" ELSE "ret"
           /\ ev[k].idx = (k + 1) \div 2

C5_ArrayConcatenation ==
    \A en \in Enters :
        ~IsListFrame(en.frame) =>
            /\ SameArguments(en.frame)
            /\ OneAfterTheOther(en.frame)
            /\ \A d \in Dones :
                   (d.frame = en.frame /\ d.res.ok) =>
                       /\ ReceivedEveryItem(en.frame)
                       /\ d.res.val = Expanded_Array(ConcatReturned(ReturnedTo(en.frame)))

C5_Witness ==
    \E d \in Dones :
        /\ d.res.ok /\ ~IsListFrame(d.frame)
        /\ EnterOf(d.frame).args.active_property # None
        /\ Len(ItemsOf(d.frame)) >= 2
        /\ Len(d.res.val.objs) >= 2
        /\ d.res.val.objs[1] # d.res.val.objs[2]

(***************************************************************************)
(* C9.  As claimed: every warning emitted during expansion is delivered to  *)
(* the caller's warning handler, one call of the handler per non-fatal      *)
(* anomaly.                                                                 *)
(***************************************************************************)
C9_EveryWarningDelivered == handled = anomalies

(***************************************************************************)
(* Reading the trace of the facade.                                        *)
(***************************************************************************)
StepsOf(op) == {k \in 1..Len(trace) : trace[k].op = op}
BaseIsSet == proc_options.base # None

InitialContext ==
    Context_new(IF BaseIsSet THEN proc_options.base ELSE remote.url)
AfterExpandContextExpected ==
    IF proc_options.expand_context = None THEN InitialContext
    ELSE process_full(RemoteContext(proc_options.expand_context), InitialContext,
                      InitialContext.original_base_url)
AfterContextLinkExpected ==
    IF remote.context_url = None THEN AfterExpandContextExpected
    ELSE process_full(RemoteContext(remote.context_url), AfterExpandContextExpected,
                      remote.context_url)

\* The steps of a run that fails nowhere, in the order claimed.
ExpectedSteps ==
    <<[op |-> "new_context", iri |-> None]>>
    \o (IF proc_options.expand_context = None THEN <<>>
        ELSE <<[op |-> "load_context", iri |-> proc_options.expand_context],
               [op |-> "process_context", iri |-> proc_options.expand_context]>>)
    \o (IF remote.context_url = None THEN <<>>
        ELSE <<[op |-> "load_context", iri |-> remote.context_url],
               [op |-> "process_context", iri |-> remote.context_url]>>)
    \o <<[op |-> "expand", iri |-> remote.url]>>

\* The steps taken from the creation of the initial context to the expansion.
StepsTaken ==
    SelectSeq(trace, LAMBDA st : st.op \in {"new_context", "load_context",
                                            "process_context", "expand"})

C7_ExpandContextFirst ==
    /\ Len(StepsTaken) <= Len(ExpectedSteps)
    /\ \A k \in 1..Len(StepsTaken) :
           /\ StepsTaken[k].op = ExpectedSteps[k].op
           /\ StepsTaken[k].iri = ExpectedSteps[k].iri
    /\ \A k \in StepsOf("process_context") :
           trace[k].against =
               IF trace[k].iri = proc_options.expand_context
               THEN InitialContext ELSE AfterExpandContextExpected
    /\ \A k \in StepsOf("expand") :
           /\ trace[k].against = AfterContextLinkExpected
           /\ expand_args.context = AfterContextLinkExpected

C7_Witness ==
    /\ proc_options.expand_context # None
    /\ remote.context_url # None
    /\ \E k \in StepsOf("expand") :
           /\ trace[k].against = AfterContextLinkExpected
           /\ Context_get(trace[k].against, "p") = TermDefinition("p", {"List"})
           /\ Context_get(trace[k].against, "l") = TermDefinition("l", {"List"})

(***************************************************************************)
(* C8.  Every failure inside expand_full is returned in the ExpandError     *)
(* variant of the step that failed, carrying the error of that step         *)
(* unchanged: Loading for the load of the document, ContextLoading for the  *)
(* load of a context, ContextProcessing for the processing of a context,    *)
(* Expansion for the expansion; to_rdf_full wraps that ExpandError in       *)
(* ToRdfError::Expand.  A failed step is the last step and the method       *)
(* returns an error.                                                        *)
(***************************************************************************)
VariantOfStep(op) ==
    CASE op = "load_document" -> "Loading"
      [] op = "load_context" -> "ContextLoading"
      [] op = "process_context" -> "ContextProcessing"
      [] OTHER -> "Expansion"

C8_ErrorsAreWrapped ==
    /\ \A k \in 1..Len(trace) :
           trace[k].status # Success =>
               LET e == [variant |-> VariantOfStep(trace[k].op),
                         cause |-> trace[k].status]
               IN /\ k = Len(trace)
                  /\ ppc = "error"
                  /\ ~outcome.ok
                  /\ outcome.error = IF operation = "to_rdf_full"
                                     THEN [variant |-> "Expand", cause |-> e]
                                     ELSE e
    /\ outcome.ok => \A k \in 1..Len(trace) : trace[k].status = Success
    /\ ppc = "error" => Len(trace) > 0 /\ trace[Len(trace)].status # Success

C8_Witness ==
    /\ operation = "to_rdf_full"
    /\ ppc = "error"
    /\ outcome.error.variant = "Expand"
    /\ outcome.error.cause.variant = "ContextLoading"
    /\ trace[Len(trace)].op = "load_context"
    /\ trace[Len(trace)].iri = remote.context_url

(***************************************************************************)
(* C10.  A warning never becomes an error and never aborts processing:      *)
(* handling a warning leaves the code running, which goes through every     *)
(* warning whichever handler is in use; the handler `()` keeps nothing of   *)
(* the warnings; a handler `&mut H` gives H each warning exactly once, in   *)
(* the order emitted, with the vocabulary.                                  *)
(***************************************************************************)
Delivered ==
    [k \in 1..Len(emitted) |-> [vocabulary |-> vocabulary, warning |-> emitted[k]]]

EveryNodeHasId(d) == \A i \in 1..Len(d) : d[i].id # NoId
LacksId(input) == {i \in 1..Len(input) : input[i].id = NoId}
BothRunsDone == Len(finished) = 2 /\ run = 2 /\ rpc \in {"done", "error"}

(***************************************************************************)
(* C11.  In to_rdf_full the document is relabeled exactly once, after the   *)
(* expansion has succeeded and before quads() can produce a quad: no label  *)
(* is made and nothing is relabeled before the expansion has returned; the  *)
(* ToRdf the caller gets, and every quad it produces, comes from a document *)
(* relabeled once in which every node has an identifier; when the           *)
(* expansion fails the generator is left as it was created and the run      *)
(* returns the wrapped error, not a ToRdf.                                  *)
(***************************************************************************)
C11_RelabelOnceBeforeQuads ==
    /\ rpc \in {"start", "to_rdf_new", "error"} =>
        /\ relabeled = 0
        /\ generator = Generator_new(rdf_seed)
        /\ quads = {}
    /\ rpc = "to_rdf" => relabeled = 1 /\ EveryNodeHasId(doc) /\ quads = {}
    /\ (rdf_method = "to_rdf_full" /\ rpc = "done") =>
        /\ relabeled = 1
        /\ EveryNodeHasId(doc)
        /\ \A q \in quads : q.o # NoId
        /\ generator.made = Cardinality(LacksId(rdf_input))
    /\ rpc = "error" =>
        /\ ~finished[Len(finished)].outcome.ok
        /\ rdf_method = "to_rdf_full" =>
            finished[Len(finished)].outcome.error =
                ToRdfError_Expand(ExpandError_Expansion(rdf_failure))
        /\ finished[Len(finished)].generator = Generator_new(rdf_seed)
        /\ finished[Len(finished)].quads = {}

C11_Witness ==
    /\ rdf_method = "to_rdf_full"
    /\ rpc = "done"
    /\ Cardinality(LacksId(rdf_input)) >= 2
    /\ Cardinality(quads) >= 3

Completed == {i \in 1..Len(trace) : trace[i].op # "drop"}
InternedByCompleted == UNION {InternedBy(trace[i]) : i \in Completed}
GeneratorInvoked ==
    \E i \in 1..Len(trace) : trace[i].op = "relabel_and_canonicalize"
DroppedAt == trace[Len(trace)].at

ExpansionKeepsContext ==
    /\ active_context' = active_context
    /\ \A i \in 1..Len(stack') : stack'[i].args.active_context = active_context
    /\ \A e \in Range(log') :
        e.ev \in {"enter", "call"} => e.args.active_context = active_context

FacadeDerivesNewContext ==
    /\ Len(trace') >= Len(trace)
    /\ SubSeq(trace', 1, Len(trace)) = trace
    /\ local_context' # local_context =>
        LET last == trace'[Len(trace')]
        IN /\ Len(trace') = Len(trace) + 1
           /\ last.status = Success
           /\ last.against = IF ppc = "new_context" THEN local_context' ELSE local_context
           /\ \/ /\ ppc = "new_context"
                 /\ last.op = "new_context"
                 /\ local_context' = expand_full_initial_context
              \/ /\ ppc \in {"process_expand_context", "process_context_link"}
                 /\ last.op = "process_context"
                 /\ local_context' =
                        process_full(RemoteContext(last.iri), local_context, last.base)

C16_ProtectedTerms ==
    \A k \in 1..Len(ctx_history) :
        LET h == ctx_history[k]
            previous == h.before[h.local.term]
        IN /\ (~h.local.null /\ previous.defined /\ previous.protected) =>
                IF h.local.iri # previous.iri
                THEN /\ h.result = CtxErr("ProtectedTermRedefinition")
                     /\ k = Len(ctx_history)
                     /\ cpc = "error"
                ELSE /\ h.result.ok
                     /\ h.result.definitions = h.before
           /\ h.result.ok =>
                \A t \in Terms :
                    h.before[t].protected => h.result.definitions[t] = h.before[t]
           /\ k > 1 => (ctx_history[k - 1].result.ok
                        /\ h.before = ctx_history[k - 1].result.definitions)

C16_Witness ==
    /\ cpc = "error"
    /\ Len(ctx_history) = 3
    /\ ctx_history[1].local = TermContext("name", "http://ex/name", TRUE)
    /\ ctx_history[2].local = TermContext("name", "http://ex/name", FALSE)
    /\ ctx_history[2].result = CtxOk(ctx_history[1].result.definitions)
    /\ ctx_history[3].local.term = "name"
    /\ ctx_history[3].local.iri = "http://ex/other"
    /\ ctx_result = CtxErr("ProtectedTermRedefinition")

(***************************************************************************)
(* C17.  The code of an error of the facade: Loading has the code           *)
(* LoadingDocumentFailed and ContextLoading the code                       *)
(* LoadingRemoteContextFailed, in ExpandError and in FlattenError;          *)
(* FlattenError::ConflictingIndexes has the code ConflictingIndexes; an     *)
(* Expansion, ContextProcessing or Expand wrapper of ExpandError,           *)
(* FlattenError or ToRdfError has the code of the error it wraps, so the    *)
(* code of the innermost error with a code goes unchanged through every     *)
(* wrapper.                                                                 *)
(***************************************************************************)
CodedTypes == {"ExpandError", "FlattenError", "ToRdfError"}
C17_CodesAreStable ==
    \A i \in 1..Len(err_chain) :
        (err_chain[i].type \in CodedTypes /\ codes[i] # NoCode) =>
            /\ err_chain[i].variant = "Loading" => codes[i] = "LoadingDocumentFailed"
            /\ err_chain[i].variant = "ContextLoading" =>
                    codes[i] = "LoadingRemoteContextFailed"
            /\ err_chain[i].variant = "ConflictingIndexes" =>
                    codes[i] = "ConflictingIndexes"
            /\ (err_chain[i].variant \in {"Expansion", "ContextProcessing", "Expand"}
                /\ codes[i - 1] # NoCode) => codes[i] = codes[i - 1]

C17_Witness ==
    /\ Len(err_chain) = 3
    /\ err_chain[1].type = "expansion::Error"
    /\ err_chain[3] = Layer("ToRdfError", "Expand")
    /\ codes[1] # NoCode
    /\ codes[2] = codes[1]
    /\ codes[3] = codes[1]

(***************************************************************************)
(* Reading the log of the loaders.                                         *)
(***************************************************************************)
LoadEvents(ev, path) ==
    {i \in 1..Len(load_log) : load_log[i].ev = ev /\ load_log[i].path = path}
Called(path) == LoadEvents("call", path) # {}
HasReturned(path) == LoadEvents("ret", path) # {}
CallOf(path) == CHOOSE i \in LoadEvents("call", path) : TRUE
ReturnOf(path) == CHOOSE i \in LoadEvents("ret", path) : TRUE
KindAt(path) == LoaderAt(load_loader, path).kind

\* Whether the loader at place `p` is to the left of the one at place `q`.
RECURSIVE LeftOf(_, _)
LeftOf(p, q) ==
    /\ p # <<>>
    /\ q # <<>>
    /\ \/ Head(p) < Head(q)
       \/ Head(p) = Head(q) /\ LeftOf(Tail(p), Tail(q))

(***************************************************************************)
(* C18.  ChainLoader::load calls its first loader first, with the url it    *)
(* was given.  When that succeeds its document is the result and the        *)
(* second loader is not called.  The second loader is called only after     *)
(* the first has failed, with the same url; its document is the result      *)
(* when it succeeds; when it fails too the result is an error whose cause   *)
(* holds the cause of the first, then the cause of the second.  In a        *)
(* nesting of ChainLoaders the loaders are therefore called from left to    *)
(* right.                                                                  *)
(***************************************************************************)
C18_ChainLoaderOrder ==
    /\ \A i \in 1..Len(load_log) :
        LET e == load_log[i]
            first == Append(e.path, 1)
            second == Append(e.path, 2)
        IN /\ (e.ev = "call" /\ KindAt(e.path) = "ChainLoader" /\ i < Len(load_log)) =>
                /\ load_log[i + 1].ev = "call"
                /\ load_log[i + 1].path = first
                /\ load_log[i + 1].url = e.url
           /\ (e.ev = "call" /\ e.path # <<>> /\ e.path[Len(e.path)] = 2) =>
                LET sibling == Append(Pop(e.path), 1)
                IN /\ HasReturned(sibling)
                   /\ ReturnOf(sibling) < i
                   /\ ~load_log[ReturnOf(sibling)].res.ok
                   /\ e.url = load_log[CallOf(Pop(e.path))].url
           /\ (e.ev = "ret" /\ KindAt(e.path) = "ChainLoader") =>
                /\ HasReturned(first)
                /\ CallOf(e.path) < CallOf(first)
                /\ LET r1 == load_log[ReturnOf(first)].res
                   IN IF r1.ok
                      THEN e.res = r1 /\ ~Called(second)
                      ELSE /\ HasReturned(second)
                           /\ ReturnOf(first) < CallOf(second)
                           /\ LET r2 == load_log[ReturnOf(second)].res
                              IN IF r2.ok THEN e.res = r2
                                 ELSE /\ ~e.res.ok
                                      /\ e.res.cause = chain_Error(r1.cause, r2.cause)
    /\ \A i, j \in 1..Len(load_log) :
        (/\ i < j
         /\ load_log[i].ev = "call" /\ load_log[j].ev = "call"
         /\ KindAt(load_log[i].path) # "ChainLoader"
         /\ KindAt(load_log[j].path) # "ChainLoader") =>
            LeftOf(load_log[i].path, load_log[j].path)

C18_Witness ==
    /\ lcur.mode = "done"
    /\ ~load_result.ok
    /\ load_loader.kind = "ChainLoader"
    /\ load_loader.parts[1].kind = "ChainLoader"
    /\ load_result.target = load_url
    /\ load_result.cause.name = "chain::Error"
    /\ load_result.cause.parts[1].name = "chain::Error"
    /\ load_result.cause.parts[1].parts[1].name # load_result.cause.parts[2].name

(***************************************************************************)
(* C19.  NoLoader fails on every call.  A HashMap or BTreeMap loader fails  *)
(* exactly when the url is not one of its keys, and otherwise returns the   *)
(* document it holds for the url.  In each failure the target of the        *)
(* LoadError is the url asked for and its cause is CannotLoad (NoLoader)    *)
(* or EntryNotFound (maps).  No call changes a map.                         *)
(***************************************************************************)
LeafAnswers ==
    \A i \in 1..Len(load_log) :
        LET e == load_log[i]
            l == LoaderAt(load_loader, e.path)
        IN e.ev = "ret" =>
            /\ l.kind = "NoLoader" => e.res = LoadError_new(e.url, Cause("CannotLoad"))
            /\ l.kind \in {"HashMap", "BTreeMap"} =>
                /\ e.res.ok <=> (\E d \in l.entries : d[1] = e.url)
                /\ e.res.ok => <<e.url, e.res.doc>> \in l.entries
                /\ ~e.res.ok => e.res = LoadError_new(e.url, Cause("EntryNotFound"))

C19_SimpleLoaders == []LeafAnswers /\ [][load_loader' = load_loader]_vars

C19_Witness ==
    /\ lcur.mode = "done"
    /\ load_result = LoadOk("document 3")
    /\ \E i \in 1..Len(load_log) :
        load_log[i].ev = "ret" /\ load_log[i].res.cause = Cause("CannotLoad")
    /\ \E i \in 1..Len(load_log) :
        load_log[i].ev = "ret" /\ load_log[i].res.cause = Cause("EntryNotFound")

(***************************************************************************)
(* C20.  Expand::expand and Expand::expand_with run the expansion           *)
(* algorithm (document::expand) with an empty context whose base URL is     *)
(* the default base URL of what they are called on, with that same base     *)
(* URL, and with the default options: no base URL for a JSON value, the     *)
(* url of the document for a RemoteDocument.  expand uses no vocabulary,    *)
(* expand_with the one of the caller.                                       *)
(***************************************************************************)
C20_ExpandDefaults ==
    /\ \A k \in 1..Len(trait_log) :
        trait_log[k].fn \in {"expand_full", "document::expand"} =>
            LET base == IF receiver.kind = "RemoteDocument" THEN receiver.url ELSE None
            IN /\ trait_log[k].context = [original_base_url |-> base, definitions |-> {}]
               /\ trait_log[k].base_url = base
               /\ trait_log[k].options = expansion_Options_default
               /\ trait_log[k].vocabulary = caller_vocabulary
    /\ trait_method = "expand" => caller_vocabulary = NoVocabulary
    /\ tcall.fn = "document::expand" => tcall.on = "Value"

C20_Witness ==
    /\ tcall.fn = "document::expand"
    /\ trait_method = "expand"
    /\ receiver.kind = "RemoteDocument"
    /\ receiver.url = DocumentUrl
    /\ tcall.base_url = DocumentUrl
    /\ Len(trait_log) = 4

(***************************************************************************)
(* C21.  Options::default() has base = None, compact_arrays = true,        *)
(* ordered = false, processing_mode = JSON-LD 1.1, expand_context = None,  *)
(* rdf_direction = None and produce_generalized_rdf = false; unordered()   *)
(* changes only the field ordered, to false, and with_expand_context()     *)
(* only the field expand_context; every other field keeps its value.       *)
(***************************************************************************)
SameExcept(field) ==
    \A f \in DOMAIN options_self \ {field} : options_result[f] = options_self[f]

C21_OptionsBuilders ==
    /\ options_call.method = "default" =>
        /\ options_result.base = None
        /\ options_result.compact_arrays = TRUE
        /\ options_result.ordered = FALSE
        /\ options_result.processing_mode = "JsonLd1_1"
        /\ options_result.expand_context = None
        /\ options_result.rdf_direction = None
        /\ options_result.produce_generalized_rdf = FALSE
    /\ options_call.method = "unordered" =>
        /\ options_result.ordered = FALSE
        /\ SameExcept("ordered")
    /\ options_call.method = "with_expand_context" =>
        /\ options_result.expand_context = options_call.context
        /\ SameExcept("expand_context")

C21_Witness ==
    /\ options_call.method = "unordered"
    /\ options_self.ordered
    /\ options_self.base = BaseOption
    /\ options_self.expand_context = LinkUrl
    /\ options_self.rdf_direction = "CompoundLiteral"
    /\ ~options_self.compact_arrays
    /\ ~options_result.ordered

(***************************************************************************)
(* C22.  strongly_connected_components terminates without panicking, and   *)
(* the components it returns partition the vertices reachable from         *)
(* vertices(): each such vertex is in exactly one component,               *)
(* vertex_component(v) = i exactly when get(i) contains v, and two         *)
(* vertices are in the same component if and only if each is reachable     *)
(* from the other.                                                         *)
(***************************************************************************)
RECURSIVE ReachableFrom(_)
ReachableFrom(S) ==
    LET T == S \cup UNION {scc_graph.succ[v] : v \in S}
    IN IF T = S THEN S ELSE ReachableFrom(T)

Reaches(a, b) == b \in ReachableFrom({a})

\* The number of times v occurs in the components returned.
Occurrences(v) ==
    Cardinality({p \in (1..Len(scc_result.components)) \X (1..MaxVertices) :
                    /\ p[2] <= Len(scc_result.components[p[1]])
                    /\ scc_result.components[p[1]][p[2]] = v})

ComponentOf(v) == Components_vertex_component(scc_result, v)

ComponentsPartition ==
    scc_pc = "done" =>
        /\ \A v \in Vertex :
            Occurrences(v) = IF v \in ReachableFrom(scc_graph.vertices) THEN 1 ELSE 0
        /\ \A v \in Vertex : \A i \in 0..MaxVertices :
            (ComponentOf(v) = SccSome(i))
                <=> /\ Components_get(scc_result, i).some
                    /\ v \in SeqRange(Components_get(scc_result, i).value)
        /\ \A v \in Vertex :
            ComponentOf(v).some <=> v \in ReachableFrom(scc_graph.vertices)
        /\ \A v, w \in ReachableFrom(scc_graph.vertices) :
            (ComponentOf(v) = ComponentOf(w)) <=> (Reaches(v, w) /\ Reaches(w, v))

\* What is left to do: it is a natural number, and every step lowers it.
RECURSIVE SuccessorsLeft(_)
SuccessorsLeft(calls) ==
    IF calls = <<>> THEN 0
    ELSE Cardinality(Head(calls).todo) + SuccessorsLeft(Tail(calls))

StepsLeft ==
    (IF scc_pc = "run" THEN 1 ELSE 0)
    + Cardinality(scc_todo)
    + (MaxVertices + 1) * Cardinality(Vertex \ Visited(scc_map))
    + Len(scc_calls)
    + SuccessorsLeft(scc_calls)

\* The call goes on until it returns (no step is missing), each step brings
\* it nearer to its end, it never panics, and what it returns is the
\* partition.
C22_SccPartition ==
    /\ []ComponentsPartition
    /\ [](scc_pc # "panicked")
    /\ [](scc_pc = "run" => ENABLED SccNext)
    /\ [][StepsLeft' < StepsLeft]_vars

C22_Witness ==
    /\ scc_pc = "done"
    /\ Components_len(scc_result) = 1
    /\ Len(Components_get(scc_result, 0).value) = 2
    /\ \E v \in Vertex : ~ComponentOf(v).some
    /\ \E v \in Vertex : ComponentOf(v).some /\ v \notin scc_graph.vertices

(***************************************************************************)
(* C28.  The components are numbered in reverse topological order: for     *)
(* every edge v -> w of the graph reached, vertex_component(w) <=          *)
(* vertex_component(v); every index returned by successors(i) is <= i,     *)
(* and i itself is returned exactly when component i has an edge between   *)
(* two of its members (a self-loop included).                              *)
(***************************************************************************)
C28_ReverseTopologicalOrder ==
    scc_pc = "done" =>
        /\ \A v \in ReachableFrom(scc_graph.vertices) : \A w \in scc_graph.succ[v] :
            /\ ComponentOf(v).some
            /\ ComponentOf(w).some
            /\ ComponentOf(w).value <= ComponentOf(v).value
        /\ \A i \in 0..(Components_len(scc_result) - 1) :
            /\ Components_successors(scc_result, i).some
            /\ \A k \in Components_successors(scc_result, i).value : k <= i
            /\ i \in Components_successors(scc_result, i).value
                <=> \E a, b \in SeqRange(Components_get(scc_result, i).value) :
                        b \in scc_graph.succ[a]

C28_Witness ==
    /\ scc_pc = "done"
    /\ Components_len(scc_result) = 3
    /\ 2 \in Components_successors(scc_result, 2).value
    /\ 1 \in Components_successors(scc_result, 2).value
    /\ 0 \in Components_successors(scc_result, 1).value
    /\ 1 \notin Components_successors(scc_result, 1).value

(***************************************************************************)
(* C23.  is_decimal(r) terminates for every rational r and returns true    *)
(* if and only if the reduced denominator of r has no prime factor other   *)
(* than 2 and 5; decimal_lexical_representation(r) returns Some exactly    *)
(* when is_decimal(r) is true; Decimal::try_from(r) succeeds exactly then  *)
(* and otherwise returns NoDecimalRepresentation carrying r.               *)
(***************************************************************************)
RECURSIVE WithoutFactor(_, _)
WithoutFactor(d, p) == IF d % p = 0 THEN WithoutFactor(d \div p, p) ELSE d

HasFiniteDecimalRepresentation(r) ==
    WithoutFactor(WithoutFactor(r.denom \div GCD(Abs(r.numer), r.denom), 2), 5) = 1

\* The turns the loops can still take, and the functions still to run.
DecimalStepsLeft ==
    (CASE dec_phase = "is_decimal" -> 4
       [] dec_phase = "decimal_lexical_representation" -> 3
       [] dec_phase = "try_from" -> 2
       [] dec_phase \in {"lexical_representation", "from", "from_str"} -> 1
       [] OTHER -> 0) * (2 * MaxDenom + 4)
    + (IF dec_pc = "entry" THEN 2 * MaxDenom + 2
       ELSE 2 * (dec_r.denom - Cardinality(dec_seen))
            + (IF loop_condition(dec_rem, dec_seen) THEN 1 ELSE 0))

DecimalAnswers ==
    /\ dec_is_decimal.called =>
        dec_is_decimal.value = HasFiniteDecimalRepresentation(dec_r)
    /\ dec_lexical.called => dec_lexical.some = dec_is_decimal.value
    /\ dec_try_from.called =>
        /\ dec_try_from.ok = dec_is_decimal.value
        /\ dec_try_from.data = dec_r
    /\ dec_cached.called => ~dec_cached.panic

C23_IsDecimal ==
    /\ []DecimalAnswers
    /\ [](dec_phase \notin {"done", "from", "from_str"} => ENABLED DecimalNext)
    /\ [][DecimalStepsLeft' < DecimalStepsLeft]_vars

C23_Witness ==
    /\ dec_phase = "done"
    /\ dec_r = Ratio(-7, 12)
    /\ dec_is_decimal.called /\ ~dec_is_decimal.value
    /\ dec_lexical.called /\ ~dec_lexical.some
    /\ dec_try_from.called /\ ~dec_try_from.ok

(***************************************************************************)
(* C29.  For every rational r with a finite decimal representation,        *)
(* decimal_lexical_representation(r) is the decimal string of r: one '-'   *)
(* in front if and only if r < 0, the digits of the integer part of |r|,   *)
(* and, if and only if r is not an integer, '.' and the fractional digits  *)
(* of |r| with their leading zeros; the string denotes r.                  *)
(***************************************************************************)
RECURSIVE FractionLength(_, _)
FractionLength(d, k) == IF Pow10(k) % d = 0 THEN k ELSE FractionLength(d, k + 1)

RECURSIVE ZeroPadded(_, _)
ZeroPadded(q, n) == IF Len(q) >= n THEN q ELSE ZeroPadded(<<"0">> \o q, n)

DecimalString(r) ==
    LET n == Abs(r.numer)
        k == FractionLength(r.denom, 0)
        fract == ((n % r.denom) * Pow10(k)) \div r.denom
    IN (IF r.numer < 0 THEN <<"-">> ELSE <<>>)
        \o NatToString(n \div r.denom)
        \o (IF r.denom = 1 THEN <<>>
            ELSE <<".">> \o ZeroPadded(NatToString(fract), k))

C29_LexicalRepresentation ==
    /\ (dec_lexical.called /\ dec_lexical.some) =>
            dec_lexical.value = DecimalString(dec_r)
    /\ (dec_cached.called /\ ~dec_cached.panic) =>
            dec_cached.value = DecimalString(dec_r)

(***************************************************************************)
(* C30.  The Decimal made of a valid lexical form, by From<DecimalBuf>     *)
(* and by FromStr, is the rational number that the string denotes:         *)
(* "-1.5" gives -3/2, "-0.5" gives -1/2, "0.05" gives 1/20.                *)
(***************************************************************************)
\* The number a lexical form denotes: its digits read as one number, divided
\* by the power of ten of the fraction's length, with the sign of the form.
Denoted(text) ==
    LET magnitude == DigitsValue(text.int \o text.fract)
        scale == Pow10(Len(text.fract))
    IN BigRational_new(IF text.sign = <<"-">> THEN -magnitude ELSE magnitude, scale)

C30_FromLexical ==
    dec_from.called => dec_from.data = Denoted(dec_text)

(***************************************************************************)
(* C24.  If the expansion of an item of an array fails, expand_array       *)
(* returns that error at once: no item after the failing one is expanded   *)
(* (nothing at all is expanded any more), and what is returned is the      *)
(* error, never a list or an array of the items expanded so far.           *)
(***************************************************************************)
ItemFailedAt(k) == log[k].ev = "ret" /\ ~log[k].res.ok

C24_ArrayFailsFast ==
    \A k \in 1..Len(log) :
        ItemFailedAt(k) =>
            /\ k < Len(log)
            /\ log[k + 1].ev = "done"
            /\ log[k + 1].frame = log[k].frame
            /\ log[k + 1].res = log[k].res
            /\ log[k + 1].res.val = Expanded_Null
            /\ \A j \in (k + 1)..Len(log) : log[j].ev \notin {"call", "enter"}

\* The second of three items fails, after the first was expanded to an object.
C24_Witness ==
    /\ pc = "error"
    /\ \E k \in 1..Len(log) :
        /\ ItemFailedAt(k)
        /\ log[k].idx = 2
        /\ \E e \in 1..Len(log) :
            /\ log[e].ev = "enter"
            /\ log[e].frame = log[k].frame
            /\ Len(log[e].args.element.items) = 3
        /\ \E j \in 1..(k - 1) :
            /\ log[j].ev = "ret"
            /\ log[j].frame = log[k].frame
            /\ log[j].res.ok
            /\ log[j].res.val.objs # <<>>

(***************************************************************************)
(* C25.  In expand_full the steps (load the document, load and process     *)
(* the expand context, load and process the context link, expand) run in   *)
(* that order, and the first step that fails ends the operation: no step   *)
(* follows it, and the result is an error, never an ExpandedDocument.      *)
(***************************************************************************)
\* The place of a step in the order of the code.
StepRank(step) ==
    CASE step.op = "load_document" -> 1
      [] step.op = "new_context" -> 2
      [] step.op = "load_context" /\ step.iri = taken_expand_context -> 3
      [] step.op = "process_context" /\ step.iri = taken_expand_context -> 4
      [] step.op = "load_context" -> 5
      [] step.op = "process_context" -> 6
      [] step.op = "expand" -> 7
      [] OTHER -> 8

C25_FirstFailureEnds ==
    /\ \A j, k \in 1..Len(trace) : j < k => StepRank(trace[j]) < StepRank(trace[k])
    /\ \A k \in 1..Len(trace) :
        /\ trace[k].op = "process_context" =>
            /\ k > 1
            /\ trace[k - 1].op = "load_context"
            /\ trace[k - 1].iri = trace[k].iri
        /\ trace[k].status # Success =>
            /\ k = Len(trace)
            /\ ppc = "error"
            /\ ~outcome.ok
            /\ outcome.value = None
    /\ outcome.ok => \A k \in 1..Len(trace) : trace[k].status = Success
    /\ ppc = "error" => trace # <<>> /\ trace[Len(trace)].status # Success

\* The expand context was loaded and processed, then the load of the context
\* link failed: the context link is not processed and nothing is expanded.
C25_Witness ==
    /\ operation = "expand_full"
    /\ ppc = "error"
    /\ Len(trace) = 5
    /\ trace[1].op = "load_document"
    /\ trace[4].op = "process_context"
    /\ trace[5].op = "load_context"
    /\ trace[5].iri = LinkUrl
    /\ trace[5].status = "LoadingContextFailed"
    /\ outcome = Failed(ExpandError_ContextLoading("LoadingContextFailed"))

(***************************************************************************)
(* C26.  Every to_rdf method expands the document with ordered = false     *)
(* whatever the caller's options say, and forwards the rest: the           *)
(* expansion receives the caller's base, expand_context, processing_mode   *)
(* and expansion policy, and the quads are generated with the caller's     *)
(* rdf_direction and produce_generalized_rdf.                              *)
(***************************************************************************)
C26_ToRdfForwardsOptions ==
    /\ to_rdf_expansion.called =>
        /\ ~to_rdf_expansion.options.ordered
        /\ ~to_rdf_expansion.expansion_options.ordered
        /\ to_rdf_expansion.options.base = to_rdf_given.base
        /\ to_rdf_expansion.options.expand_context = to_rdf_given.expand_context
        /\ to_rdf_expansion.options.processing_mode = to_rdf_given.processing_mode
        /\ to_rdf_expansion.options.expansion_policy = to_rdf_given.expansion_policy
        /\ to_rdf_expansion.expansion_options.processing_mode
                = to_rdf_given.processing_mode
        /\ to_rdf_expansion.expansion_options.policy = to_rdf_given.expansion_policy
        /\ to_rdf_expansion.context_processing_options.processing_mode
                = to_rdf_given.processing_mode
    /\ to_rdf_value.called =>
        /\ to_rdf_value.rdf_direction = to_rdf_given.rdf_direction
        /\ to_rdf_value.produce_generalized_rdf = to_rdf_given.produce_generalized_rdf
    /\ to_rdf_quads.called =>
        /\ to_rdf_quads.rdf_direction = to_rdf_given.rdf_direction
        /\ to_rdf_quads.produce_generalized_rdf = to_rdf_given.produce_generalized_rdf
    /\ to_rdf_call.method = "failed" => ~to_rdf_value.called

C26_Witness ==
    /\ to_rdf_method = "to_rdf_using"
    /\ to_rdf_call.method = "quads"
    /\ to_rdf_given.ordered
    /\ to_rdf_given.base = BaseOption
    /\ to_rdf_given.expand_context = ExpandContextUrl
    /\ to_rdf_given.processing_mode = "JsonLd1_0"
    /\ to_rdf_given.expansion_policy = "strict"
    /\ to_rdf_given.rdf_direction = "I18nDatatype"
    /\ to_rdf_given.produce_generalized_rdf
    /\ to_rdf_quads.called
    /\ ~to_rdf_expansion.options.ordered

(***************************************************************************)
(* C27.  When the recursion yields exactly one object and it is an         *)
(* unnamed graph (a node carrying only @graph), document::expand returns   *)
(* the members of the graph as the objects of the document; when it yields *)
(* one object of another kind, the document holds it unless it is a Value  *)
(* object; when it yields none or several, the document holds exactly      *)
(* those that are no Value object, and a graph object among several is     *)
(* kept as it is.                                                          *)
(***************************************************************************)
Yielded == expanded.val.objs

OnlyGraph(o) == o.t = "node" /\ o.key = "@graph"

C27_TopLevelObjects ==
    pc = "done" =>
        /\ expanded.ok
        /\ result.ok
        /\ (Len(Yielded) = 1 /\ OnlyGraph(Yielded[1])) =>
                result.objects = {Yielded[1].items[k] : k \in 1..Len(Yielded[1].items)}
        /\ (Len(Yielded) = 1 /\ ~OnlyGraph(Yielded[1])) =>
                result.objects = IF Yielded[1].t = "value" THEN {} ELSE {Yielded[1]}
        /\ Len(Yielded) # 1 =>
                /\ result.objects =
                        {Yielded[k] : k \in {n \in 1..Len(Yielded) : Yielded[n].t # "value"}}
                /\ \A k \in 1..Len(Yielded) :
                        OnlyGraph(Yielded[k]) => Yielded[k] \in result.objects

\* Two objects were yielded: a graph with a member, which stays a graph, and
\* a Value object, which is dropped.
C27_Witness ==
    /\ pc = "done"
    /\ Len(Yielded) = 2
    /\ \E k \in 1..2 :
        /\ OnlyGraph(Yielded[k])
        /\ Yielded[k].items # <<>>
        /\ result.objects = {Yielded[k]}
    /\ \E k \in 1..2 : Yielded[k].t = "value"

====
